---------------------------- MODULE Spec2Model ----------------------------
(***************************************************************************)
(* Local-first sync engine of the lawyer office application                *)
(* (hooks/useSync.ts, hooks/useOnlineData.ts, hooks/useSupabaseData.ts).   *)
(*                                                                         *)
(* Records are TLA+ records.  Every record carries the fields the sync     *)
(* engine reads: its key (id, or name for assistants), updated_at (epoch   *)
(* milliseconds; the field is absent when the source value is missing),    *)
(* its foreign key, and val, which stands for the rest of the payload.     *)
(* Documents also carry localState and isLocalOnly.                        *)
(***************************************************************************)
EXTENDS Integers, Sequences, FiniteSets, TLC

VARIABLES
    data,        \* React state `data`: the nested AppData graph of this device
    deletedIds,  \* React state `deletedIds`: pending local deletions
    remote,      \* the remote store: one sequence of rows per table
    syncDeletions, \* the remote append-only deletion log (sync_deletions)
    phase,       \* "build", "applied", "draw", "merged" while a pure pipeline
                 \* is studied on drawn inputs; "run" while the device runs
    res,         \* results of the last pure pipeline run
    syncStatus,  \* React state `syncStatus`
    isDirty,     \* React state `isDirty`
    ops,         \* the manualSync / fetchAndRefresh calls past their guard
    handlers,    \* AdminPage handlers waiting for their remote update
    idb,         \* IndexedDB: the document metadata store and the file store
    storage,     \* the remote file storage: the paths that hold a blob
    passes,      \* the upload / download queue passes in flight
    locallyDeletedDocIds, \* React state `locallyDeletedDocIds`
    queueDue,    \* data.documents changed since the queue effect last ran
    isOnline,    \* useOnlineStatus(): the prop isOnline of useSync
    isAuthLoading, \* the prop isAuthLoading of useSync
    user,        \* the prop user of useSync (userRef.current); NoUser when signed out
    hist         \* history of the run (see NoHist)

\* The running device and the file storage (idle while a pure function is
\* studied on drawn inputs).
sysVars ==
    <<syncStatus, isDirty, ops, handlers, idb, storage, passes,
      locallyDeletedDocIds, queueDue, isOnline, isAuthLoading, user, hist>>

\* The props of useSync that its guards read besides syncStatus.
hookProps == <<isOnline, isAuthLoading, user>>

vars == <<data, deletedIds, remote, syncDeletions, phase, res, sysVars>>

-----------------------------------------------------------------------------
(* Bounds of the model *)

MaxTick == 3
MaxLocal == 4
MaxOther == 1
MaxTombs == 2
MaxPending == 2
MaxSide == 2
MaxMerge == 3
MaxRemoteDeletes == 1
MaxRun == 2
MaxOps == 2
MaxHandlers == 1
MaxToggles == 1
MaxDocs == 2
MaxPasses == 2
MaxLog == 3
MaxStarts == 3
MaxAddCalls == 1
MaxSuppressed == 1
MaxUsed == 5
MaxRefused == 2

(* Program constants *)

SkewBufferMs == 2000

TimeStep == SkewBufferMs \div 2

\* updated_at values of drawn records and deleted_at values of drawn tombstones:
\* both sides of, and exactly on, the boundary updated_at = deleted_at + 2000.
Times == {i * TimeStep : i \in 2..MaxTick}

DelTimes == {i * TimeStep : i \in 0..(MaxTick - 2)}

\* new Date() / now() while the device runs: the run is short against the
\* clock-skew buffer, so every stamp it takes is the same instant.
Now == 2 * TimeStep

\* The stamp of the rows the server holds before the device is mounted.
Epoch == TimeStep

Undefined == "undefined"

\* user === null
NoUser == "null"

Id(p, i) == p \o ToString(i)

-----------------------------------------------------------------------------
(* Sequence helpers (Array.prototype.map / filter / flatMap) *)

Range(s) == {s[i] : i \in 1..Len(s)}

MapSeq(s, F(_)) == [i \in 1..Len(s) |-> F(s[i])]

FilterSeq(s, P(_)) == SelectSeq(s, P)

RECURSIVE ConcatAll(_)
ConcatAll(ss) == IF ss = <<>> THEN <<>> ELSE Head(ss) \o ConcatAll(Tail(ss))

FlatMap(s, F(_)) == ConcatAll(MapSeq(s, F))

Without(r, fields) == [f \in (DOMAIN r) \ fields |-> r[f]]

Get(r, f) == IF f \in DOMAIN r THEN r[f] ELSE Undefined

\* !!r.f: the field is there and is neither false nor the empty string
Truthy(r, f) ==
    /\ f \in DOMAIN r
    /\ IF f = "isLocalOnly" THEN r[f] = TRUE ELSE r[f] \notin {Undefined, ""}

\* item.id ?? item.name
Key(item) == IF "id" \in DOMAIN item THEN item.id ELSE item.name

\* new Date(item.updated_at || 0).getTime()
DateMs(item) == IF "updated_at" \in DOMAIN item THEN item.updated_at ELSE 0

Ids(s) == {Get(s[i], "id") : i \in 1..Len(s)}

-----------------------------------------------------------------------------
(* Data model *)

Tables ==
    << "clients", "cases", "stages", "sessions", "admin_tasks", "appointments",
       "accounting_entries", "assistants", "invoices", "invoice_items",
       "case_documents", "profiles", "site_finances" >>

TableSet == Range(Tables)

EmptyFlat == [t \in TableSet |-> <<>>]

\* The four default assistant names (transliterated).
defaultAssistants == <<"ahmad", "fatima", "sara", "unassigned">>

\* The names a user may type: the default ones and a new one.
AssistantNames == Range(defaultAssistants) \cup {"n1"}

getInitialData ==
    [ clients |-> <<>>, adminTasks |-> <<>>, appointments |-> <<>>,
      accountingEntries |-> <<>>, invoices |-> <<>>, assistants |-> defaultAssistants,
      documents |-> <<>>, profiles |-> <<>>, siteFinances |-> <<>> ]

DeletedKeys ==
    { "clients", "cases", "stages", "sessions", "adminTasks", "appointments",
      "accountingEntries", "invoices", "invoiceItems", "assistants", "documents",
      "documentPaths", "profiles", "siteFinances" }

getInitialDeletedIds == [k \in DeletedKeys |-> <<>>]

\* What the model remembers of the run: whether loadData has run, the ids
\* given to records so far, the profile edits made, the operations started,
\* the calls of addDocuments, the local-only documents that were sent to the
\* server, the table that the status message of the last failed remote
\* write names ("" when it names none), the calls of manualSync that its
\* guards refused, and the message of the server's error that ended a full
\* sync in its catch branch since the last operation started (<<>> when
\* there is none).
NoHist ==
    [ loaded |-> FALSE, used |-> {}, toggles |-> 0, started |-> 0, addCalls |-> 0,
      sentLocalOnly |-> {}, uploadedLocalOnly |-> {}, errorTable |-> "",
      refused |-> 0, caught |-> <<>> ]

\* The device is online and its user is signed in.
Connected == isOnline = TRUE /\ isAuthLoading = FALSE /\ user = "u1"

\* The device before it is mounted.
SysIdle ==
    /\ syncStatus = "loading"
    /\ isDirty = FALSE
    /\ ops = <<>>
    /\ handlers = <<>>
    /\ idb = [meta |-> <<>>, files |-> {}]
    /\ storage = {}
    /\ passes = <<>>
    /\ locallyDeletedDocIds = {}
    /\ queueDue = FALSE
    /\ Connected
    /\ hist = NoHist

-----------------------------------------------------------------------------
(* flattenData: nested graph -> one sequence per table *)

flattenData(d) ==
    LET casesOf(c) == MapSeq(c.cases, LAMBDA cs : [client_id |-> c.id] @@ cs)
        cases == FlatMap(d.clients, casesOf)
        stagesOf(cs) == MapSeq(cs.stages, LAMBDA st : [case_id |-> cs.id] @@ st)
        stages == FlatMap(cases, stagesOf)
        sessionsOf(st) == MapSeq(st.sessions, LAMBDA s : [stage_id |-> st.id] @@ s)
        sessions == FlatMap(stages, sessionsOf)
        itemsOf(inv) == MapSeq(inv.items, LAMBDA it : [invoice_id |-> inv.id] @@ it)
        invoice_items == FlatMap(d.invoices, itemsOf)
    IN  [ clients |-> MapSeq(d.clients, LAMBDA c : Without(c, {"cases"})),
          cases |-> MapSeq(cases, LAMBDA cs : Without(cs, {"stages"})),
          stages |-> MapSeq(stages, LAMBDA st : Without(st, {"sessions"})),
          sessions |-> sessions,
          admin_tasks |-> d.adminTasks,
          appointments |-> d.appointments,
          accounting_entries |-> d.accountingEntries,
          assistants |-> MapSeq(d.assistants, LAMBDA n : [name |-> n]),
          invoices |-> MapSeq(d.invoices, LAMBDA inv : Without(inv, {"items"})),
          invoice_items |-> invoice_items,
          case_documents |-> d.documents,
          profiles |-> d.profiles,
          site_finances |-> d.siteFinances ]

-----------------------------------------------------------------------------
(* applyDeletionsToLocal *)

\* deletionMap.get(`${tableName}:${id}`): the last entry of the log for the key
\* (Map.set overwrites), Undefined when there is none.
DeletionMapGet(deletions, tableName, id) ==
    LET hits == {i \in 1..Len(deletions) :
                    /\ deletions[i].table_name = tableName
                    /\ deletions[i].record_id = id}
    IN  IF hits = {} THEN Undefined
        ELSE deletions[CHOOSE i \in hits : \A j \in hits : j <= i].deleted_at

HasTombstone(deletions, tableName, id) ==
    \E i \in 1..Len(deletions) :
        deletions[i].table_name = tableName /\ deletions[i].record_id = id

\* The comparison with the boundary included (not what line 128 does).
TombstoneWinsInclusive(updatedAt, deletedAt) == updatedAt <= deletedAt + SkewBufferMs

\* The comparison that lets a tombstone purge a record: updatedAt < deletedAt + 2000
TombstoneWins(updatedAt, deletedAt) == updatedAt < deletedAt + SkewBufferMs

filterItems(deletions, items, tableName) ==
    FilterSeq(items, LAMBDA item :
        IF HasTombstone(deletions, tableName, Key(item))
        THEN ~TombstoneWins(DateMs(item), DeletionMapGet(deletions, tableName, Key(item)))
        ELSE TRUE)

\* A pass over the documents that drops every document with a winning
\* tombstone, resident or not.
filterDocsAsItems(deletions, docs) == filterItems(deletions, docs, "case_documents")

\* Documents: a winning tombstone turns a resident file into a local-only one
\* and drops any other; null entries are filtered out.
filterDocs(deletions, docs) ==
    LET wins(doc) == /\ HasTombstone(deletions, "case_documents", doc.id)
                     /\ TombstoneWins(DateMs(doc),
                            DeletionMapGet(deletions, "case_documents", doc.id))
        resident(doc) == Get(doc, "localState") = "synced"
                         \/ Truthy(doc, "isLocalOnly")
        kept == FilterSeq(docs, LAMBDA doc : ~wins(doc) \/ resident(doc))
    IN  MapSeq(kept, LAMBDA doc :
            IF wins(doc) THEN [isLocalOnly |-> TRUE] @@ doc ELSE doc)

\* A cascade step that keeps every item.
CascadeKeepAll(items, fk, parentIds) == items

CascadeFilter(items, fk, parentIds) ==
    FilterSeq(items, LAMBDA x : Get(x, fk) \in parentIds)

applyDeletionsToLocal(localFlatData, deletions) ==
    IF Len(deletions) = 0 THEN localFlatData
    ELSE
    LET filteredClients == filterItems(deletions, localFlatData.clients, "clients")
        clientIds == Ids(filteredClients)
        filteredCases ==
            CascadeFilter(filterItems(deletions, localFlatData.cases, "cases"),
                          "client_id", clientIds)
        caseIds == Ids(filteredCases)
        filteredStages ==
            CascadeFilter(filterItems(deletions, localFlatData.stages, "stages"),
                          "case_id", caseIds)
        stageIds == Ids(filteredStages)
        filteredSessions ==
            CascadeFilter(filterItems(deletions, localFlatData.sessions, "sessions"),
                          "stage_id", stageIds)
        filteredInvoices ==
            CascadeFilter(filterItems(deletions, localFlatData.invoices, "invoices"),
                          "client_id", clientIds)
        invoiceIds == Ids(filteredInvoices)
        filteredInvoiceItems ==
            CascadeFilter(
                filterItems(deletions, localFlatData.invoice_items, "invoice_items"),
                "invoice_id", invoiceIds)
        filteredDocs ==
            CascadeFilter(filterDocs(deletions, localFlatData.case_documents),
                          "caseId", caseIds)
        filteredEntries ==
            FilterSeq(
                filterItems(deletions, localFlatData.accounting_entries,
                            "accounting_entries"),
                LAMBDA e : Get(e, "clientId") \in {"", Undefined}
                           \/ Get(e, "clientId") \in clientIds)
    IN  [ clients |-> filteredClients,
          cases |-> filteredCases,
          stages |-> filteredStages,
          sessions |-> filteredSessions,
          admin_tasks |-> filterItems(deletions, localFlatData.admin_tasks, "admin_tasks"),
          appointments |-> filterItems(deletions, localFlatData.appointments, "appointments"),
          accounting_entries |-> filteredEntries,
          assistants |-> filterItems(deletions, localFlatData.assistants, "assistants"),
          invoices |-> filteredInvoices,
          invoice_items |-> filteredInvoiceItems,
          case_documents |-> filteredDocs,
          profiles |-> localFlatData.profiles,
          site_finances |-> filterItems(deletions, localFlatData.site_finances, "site_finances") ]

-----------------------------------------------------------------------------
(* transformRemoteToLocal: remote rows (snake_case) -> local field names.   *)
(* Of the renamed columns the model carries the parent references.          *)

Rename(r, from, to) ==
    [f \in {to} |-> Get(r, from)] @@ Without(r, {from})

transformRemoteToLocal(remoteRaw) ==
    [ t \in TableSet |->
        CASE t = "accounting_entries" ->
               [i \in 1..Len(remoteRaw[t]) |-> Rename(remoteRaw[t][i], "client_id", "clientId")]
          [] t = "invoices" ->
               [i \in 1..Len(remoteRaw[t]) |-> Rename(remoteRaw[t][i], "client_id", "clientId")]
          [] t = "case_documents" ->
               [i \in 1..Len(remoteRaw[t]) |->
                    Rename(Rename(remoteRaw[t][i], "case_id", "caseId"),
                           "storage_path", "storagePath")]
          [] t = "assistants" ->
               [i \in 1..Len(remoteRaw[t]) |-> [name |-> remoteRaw[t][i].name]]
          [] OTHER -> remoteRaw[t] ]

-----------------------------------------------------------------------------
(* The merge loop of manualSync                                             *)

\* new Set(deletedIds.<key>) for every key but documentPaths
deletedIdsSets(d) == [k \in DeletedKeys \ {"documentPaths"} |-> Range(d[k])]

\* The key of deletedIdsSets that belongs to a flat table.
entityKey(key) ==
    CASE key = "admin_tasks" -> "adminTasks"
      [] key = "accounting_entries" -> "accountingEntries"
      [] key = "invoice_items" -> "invoiceItems"
      [] key = "case_documents" -> "documents"
      [] key = "site_finances" -> "siteFinances"
      [] OTHER -> key

\* A test of lines 293-297 that finds no parent pending deletion.
isParentDeletedNever(key, localItem, sets) == FALSE

isParentDeleted(key, localItem, sets) ==
    \/ key = "cases" /\ Get(localItem, "client_id") \in sets.clients
    \/ key = "stages" /\ Get(localItem, "case_id") \in sets.cases
    \/ key = "sessions" /\ Get(localItem, "stage_id") \in sets.stages
    \/ key = "invoice_items" /\ Get(localItem, "invoice_id") \in sets.invoices
    \/ key = "case_documents" /\ Get(localItem, "caseId") \in sets.cases

\* Map.has / Map.get / Map.set on a sequence of items keyed by id ?? name;
\* set keeps the position of a key that is already there.
MapHas(items, id) == \E i \in 1..Len(items) : Key(items[i]) = id

MapGet(items, id) ==
    items[CHOOSE i \in 1..Len(items) :
            /\ Key(items[i]) = id
            /\ \A j \in 1..Len(items) : Key(items[j]) = id => j <= i]

MapSet(items, id, item) ==
    IF MapHas(items, id)
    THEN [i \in 1..Len(items) |-> IF Key(items[i]) = id THEN item ELSE items[i]]
    ELSE Append(items, item)

\* The comparison of line 304 with ties going to the local side.
LocalNewerOrEqual(localItem, remoteItem) == DateMs(localItem) >= DateMs(remoteItem)

\* localDate > remoteDate
LocalNewer(localItem, remoteItem) == DateMs(localItem) > DateMs(remoteItem)

\* A test of line 313 that no item passes.
MissingNever(key, localItem, sets) == FALSE

\* The test of line 313 on a local item that has no remote row: a document
\* that was synced before and is not pending deletion.
MissingRemotely(key, localItem, sets) ==
    /\ key = "case_documents"
    /\ Get(localItem, "localState") = "synced"
    /\ Key(localItem) \notin sets.documents

\* One local item: acc = [merged |-> finalMergedItems, upserts |-> itemsToUpsert]
MergeLocalItem(key, localItem, remoteItems, sets, acc) ==
    LET id == Key(localItem)
    IN  IF isParentDeleted(key, localItem, sets) THEN acc
        ELSE IF MapHas(remoteItems, id)
        THEN IF LocalNewer(localItem, MapGet(remoteItems, id))
             THEN [ merged |-> MapSet(acc.merged, id, localItem),
                    upserts |-> Append(acc.upserts, localItem) ]
             ELSE [ acc EXCEPT !.merged = MapSet(@, id, MapGet(remoteItems, id)) ]
        ELSE IF MissingRemotely(key, localItem, sets)
        THEN [ acc EXCEPT !.merged = MapSet(@, id, [isLocalOnly |-> TRUE] @@ localItem) ]
        ELSE [ merged |-> MapSet(acc.merged, id, localItem),
               upserts |-> Append(acc.upserts, localItem) ]

RECURSIVE MergeLocalLoop(_, _, _, _, _, _)
MergeLocalLoop(key, localItems, i, remoteItems, sets, acc) ==
    IF i > Len(localItems) THEN acc
    ELSE MergeLocalLoop(key, localItems, i + 1, remoteItems, sets,
                        MergeLocalItem(key, localItems[i], remoteItems, sets, acc))

\* One remote item: kept when no local item has its key and the key is not
\* pending deletion.
MergeRemoteItem(key, remoteItem, localItems, sets, merged) ==
    LET id == Key(remoteItem)
    IN  IF ~MapHas(localItems, id) /\ id \notin sets[entityKey(key)]
        THEN MapSet(merged, id, remoteItem)
        ELSE merged

RECURSIVE MergeRemoteLoop(_, _, _, _, _, _)
MergeRemoteLoop(key, remoteItems, i, localItems, sets, merged) ==
    IF i > Len(remoteItems) THEN merged
    ELSE MergeRemoteLoop(key, remoteItems, i + 1, localItems, sets,
                         MergeRemoteItem(key, remoteItems[i], localItems, sets, merged))

MergeTable(key, localItems, remoteItems, sets) ==
    LET acc == MergeLocalLoop(key, localItems, 1, remoteItems, sets,
                              [merged |-> <<>>, upserts |-> <<>>])
    IN  [ merged |-> MergeRemoteLoop(key, remoteItems, 1, localItems, sets, acc.merged),
          upserts |-> acc.upserts ]

\* [merged |-> mergedFlatData, upserts |-> flatUpserts] after the loop over the tables
MergeAll(localFlatData, remoteFlatData, dIds) ==
    LET sets == deletedIdsSets(dIds)
        per == [t \in TableSet |-> MergeTable(t, localFlatData[t], remoteFlatData[t], sets)]
    IN  [ merged |-> [t \in TableSet |-> per[t].merged],
          upserts |-> [t \in TableSet |-> per[t].upserts] ]

-----------------------------------------------------------------------------
(* The safety net for orphan records                                        *)

\* A safety net step that keeps every item.
ValidKeepAll(items, fk, valid) == items

\* A safety net step that keeps no item.
ValidDropAll(items, fk, valid) == <<>>

ValidFilter(items, fk, valid) ==
    SelectSeq(items, LAMBDA x : Get(x, fk) \in valid)

SafetyNet(remoteFlatData, m) ==
    LET validClientIds == Ids(remoteFlatData.clients) \cup Ids(m.upserts.clients)
        upCases == ValidFilter(m.upserts.cases, "client_id", validClientIds)
        validCaseIds == Ids(remoteFlatData.cases) \cup Ids(upCases)
        upStages == ValidFilter(m.upserts.stages, "case_id", validCaseIds)
        validStageIds == Ids(remoteFlatData.stages) \cup Ids(upStages)
        upSessions == ValidFilter(m.upserts.sessions, "stage_id", validStageIds)
    IN  [ upserts |->
            [ m.upserts EXCEPT
                !.cases = upCases, !.stages = upStages, !.sessions = upSessions,
                !.case_documents = ValidFilter(@, "caseId", validCaseIds) ],
          merged |->
            [ m.merged EXCEPT
                !.cases = ValidFilter(@, "client_id", validClientIds),
                !.stages = ValidFilter(@, "case_id", validCaseIds),
                !.sessions = ValidFilter(@, "stage_id", validStageIds),
                !.case_documents = ValidFilter(@, "caseId", validCaseIds) ] ]

\* The conditions of the fast path (lines 260-264)
isLocalEffectivelyEmpty(f) ==
    /\ Len(f.clients) = 0 /\ Len(f.admin_tasks) = 0 /\ Len(f.appointments) = 0
    /\ Len(f.accounting_entries) = 0 /\ Len(f.invoices) = 0
    /\ Len(f.case_documents) = 0

hasPendingDeletions(dIds) == \E k \in DeletedKeys : Len(dIds[k]) > 0

isRemoteEffectivelyEmpty(remoteRaw) == \A t \in TableSet : Len(remoteRaw[t]) = 0

\* A fast path that is never taken.
FastPathNever(localFlatData, remoteRaw, dIds) == FALSE

FastPath(localFlatData, remoteRaw, dIds) ==
    /\ isLocalEffectivelyEmpty(localFlatData)
    /\ ~isRemoteEffectivelyEmpty(remoteRaw)
    /\ ~hasPendingDeletions(dIds)

-----------------------------------------------------------------------------
(* Drawing the local graph: the records a user has created on this device.  *)
(* Ids are fresh per table; timestamps are drawn from Times.                 *)

\* Records of the client graph and invoice items (the nested records).
NHier(d) ==
    LET f == flattenData(d)
    IN  Len(f.clients) + Len(f.cases) + Len(f.stages) + Len(f.sessions)
        + Len(f.invoice_items)

NOther(d) ==
    Len(d.adminTasks) + Len(d.appointments) + Len(d.accountingEntries)
    + Cardinality(Range(d.assistants) \ Range(defaultAssistants)) + Len(d.invoices)
    + Len(d.documents) + Len(d.profiles) + Len(d.siteFinances)

NRemote(r) ==
    LET RECURSIVE Sum(_)
        Sum(n) == IF n = 0 THEN 0 ELSE Len(r[Tables[n]]) + Sum(n - 1)
    IN  Sum(Len(Tables))

\* The tables fall into families that the sync treats independently of one
\* another: the client graph with the tables that refer to it, and each of
\* the flat tables alone.  One drawn state holds records of one family.
Family(t) ==
    IF t \in {"admin_tasks", "appointments", "assistants", "profiles", "site_finances"}
    THEN t ELSE "graph"

\* The field of AppData that holds a table's records (the nested tables are
\* held below clients and invoices).
DataField(t) ==
    CASE t = "admin_tasks" -> "adminTasks"
      [] t = "accounting_entries" -> "accountingEntries"
      [] t = "case_documents" -> "documents"
      [] t = "site_finances" -> "siteFinances"
      [] t \in {"cases", "stages", "sessions"} -> "clients"
      [] t = "invoice_items" -> "invoices"
      [] OTHER -> t

Present(t) ==
    \/ IF t = "assistants" THEN data.assistants # defaultAssistants
                           ELSE Len(data[DataField(t)]) > 0
    \/ Len(remote[t]) > 0
    \/ Len(deletedIds[entityKey(t)]) > 0
    \/ \E i \in 1..Len(syncDeletions) : syncDeletions[i].table_name = t

Fits(t) == phase = "run" \/ \A u \in TableSet : Present(u) => Family(u) = Family(t)

NPending(d) ==
    Len(d.clients) + Len(d.cases) + Len(d.stages) + Len(d.sessions)
    + Len(d.adminTasks) + Len(d.appointments) + Len(d.accountingEntries)
    + Len(d.invoices) + Len(d.assistants)

\* Records, pending deletions and log entries drawn so far.
NDrawn ==
    NHier(data) + NOther(data) + NRemote(remote) + NPending(deletedIds)
    + Len(syncDeletions)

\* The graph is drawn in phase "build" (up to MaxLocal records) when only the
\* deletion pass is studied, and in phase "draw" (up to MaxSide records on the
\* device and as many on the server, MaxMerge in all) when the whole merge is.
\* The running device creates up to MaxRun records.
CanDrawHier ==
    \/ phase = "build" /\ NHier(data) + NOther(data) < MaxLocal
    \/ /\ phase = "draw"
       /\ NHier(data) + NOther(data) < MaxSide
       /\ NDrawn < MaxMerge
    \/ phase = "run" /\ hist.loaded /\ Cardinality(hist.used) < MaxRun

CanDrawOther == CanDrawHier /\ NOther(data) < MaxOther

\* The first id of the prefix that is not among the given ones.
FreshId(prefix, used) ==
    LET taken == used \cup hist.used
    IN  Id(prefix, CHOOSE n \in 1..(Cardinality(taken) + 1) :
                     /\ Id(prefix, n) \notin taken
                     /\ \A k \in 1..(n - 1) : Id(prefix, k) \in taken)

\* The stamps a new record may carry.
Stamps == IF phase = "run" THEN {Now} ELSE Times

\* A record the user creates: its id is new to the device, to be precise it is
\* neither the id of a record the device holds nor one it has deleted.
NewRec(prefix, items, deleted, t) ==
    [id |-> FreshId(prefix, Ids(items) \cup Range(deleted)), updated_at |-> t, val |-> "a"]

SimpleFields ==
    { <<"adminTasks", "a", "admin_tasks">>, <<"appointments", "p", "appointments">>,
      <<"profiles", "u", "profiles">>, <<"siteFinances", "f", "site_finances">> }

DocStates ==
    { <<"synced", FALSE>>, <<"pending_upload", FALSE>>,
      <<"pending_download", FALSE>>, <<"synced", TRUE>> }

AddClient ==
    /\ CanDrawHier /\ Fits("clients")
    /\ \E t \in Stamps :
         data' = [data EXCEPT !.clients =
                    Append(@, NewRec("c", @, deletedIds.clients, t) @@ [cases |-> <<>>])]

AddCase ==
    /\ CanDrawHier /\ Fits("cases")
    /\ \E t \in Stamps, i \in 1..Len(data.clients) :
         data' = [data EXCEPT !.clients[i].cases =
                    Append(@, NewRec("k", flattenData(data).cases, deletedIds.cases, t)
                              @@ [stages |-> <<>>])]

AddStage ==
    /\ CanDrawHier /\ Fits("stages")
    /\ \E t \in Stamps, i \in 1..Len(data.clients) :
         \E j \in 1..Len(data.clients[i].cases) :
            data' = [data EXCEPT !.clients[i].cases[j].stages =
                       Append(@, NewRec("st", flattenData(data).stages, deletedIds.stages, t)
                                 @@ [sessions |-> <<>>])]

AddSession ==
    /\ CanDrawHier /\ Fits("sessions")
    /\ \E t \in Stamps, i \in 1..Len(data.clients) :
         \E j \in 1..Len(data.clients[i].cases) :
            \E k \in 1..Len(data.clients[i].cases[j].stages) :
               data' = [data EXCEPT !.clients[i].cases[j].stages[k].sessions =
                          Append(@, NewRec("s", flattenData(data).sessions, deletedIds.sessions, t))]

AddSimple ==
    /\ CanDrawOther
    /\ \E t \in Stamps, fp \in SimpleFields :
         /\ Fits(fp[3])
         /\ data' = [data EXCEPT ![fp[1]] = Append(@, NewRec(fp[2], @, deletedIds[fp[1]], t))]

\* handleAddAssistant: a name that is not in the list and is not 'unassigned'.
AddAssistant ==
    /\ CanDrawOther /\ Fits("assistants")
    /\ \E n \in AssistantNames \ (Range(data.assistants) \cup {"unassigned"}) :
         data' = [data EXCEPT !.assistants = Append(@, n)]

\* An entry references a client of the graph or none ('').
AddAccountingEntry ==
    /\ CanDrawOther /\ Fits("accounting_entries")
    /\ \E t \in Stamps, cl \in Ids(data.clients) \cup {""} :
         data' = [data EXCEPT !.accountingEntries =
                    Append(@, NewRec("e", @, deletedIds.accountingEntries, t) @@ [clientId |-> cl])]

AddInvoice ==
    /\ CanDrawOther /\ Fits("invoices")
    /\ \E t \in Stamps, cl \in Ids(data.clients) :
         data' = [data EXCEPT !.invoices =
                    Append(@, NewRec("i", @, deletedIds.invoices, t)
                              @@ [clientId |-> cl, items |-> <<>>])]

AddInvoiceItem ==
    /\ CanDrawHier /\ Fits("invoice_items")
    /\ \E t \in Stamps, i \in 1..Len(data.invoices) :
         data' = [data EXCEPT !.invoices[i].items =
                    Append(@, NewRec("it", flattenData(data).invoice_items, deletedIds.invoiceItems, t))]

\* A document belongs to a case of the graph, or to a case that is gone
\* (deleteClient removes the client's cases and leaves their documents).
AddDocument ==
    /\ CanDrawOther /\ Fits("case_documents")
    /\ \E t \in Stamps, ds \in DocStates,
          cs \in Ids(flattenData(data).cases) \cup {"k1"} :
         data' = [data EXCEPT !.documents =
                    Append(@, LET r == NewRec("d", @, deletedIds.documents, t)
                              IN  r @@ [caseId |-> cs, localState |-> ds[1],
                                        isLocalOnly |-> ds[2],
                                        storagePath |-> "path/" \o r.id])]

DrawLocal ==
    /\ \/ AddClient \/ AddCase \/ AddStage \/ AddSession \/ AddSimple
       \/ AddAssistant \/ AddAccountingEntry \/ AddInvoice \/ AddInvoiceItem
       \/ AddDocument
    /\ UNCHANGED <<deletedIds, remote, syncDeletions, phase, res, sysVars>>

\* A tombstone another device wrote for a record this device holds
\* (table_name is the flat table name, record_id the record's key).
\* Entries for different records are drawn in table order, entries for one
\* record in any order of their times.  The default assistant names are
\* interchangeable: of them, the first stands for all.
LocalKeys(f) ==
    UNION { {<<Tables[n], Key(f[Tables[n]][i]), n, i>> :
               i \in { j \in 1..Len(f[Tables[n]]) :
                         Tables[n] = "assistants" => j \notin 2..Len(defaultAssistants) }}
            : n \in 1..Len(Tables) }

KeyOrdered(a, b) == a[3] < b[3] \/ (a[3] = b[3] /\ a[4] <= b[4])

LogDeletion ==
    /\ phase = "build"
    /\ Len(syncDeletions) < MaxTombs
    /\ \E k \in LocalKeys(flattenData(data)), t \in DelTimes :
         /\ \A l \in LocalKeys(flattenData(data)) :
               (Len(syncDeletions) > 0
                /\ l[1] = syncDeletions[Len(syncDeletions)].table_name
                /\ l[2] = syncDeletions[Len(syncDeletions)].record_id)
               => KeyOrdered(l, k)
         /\ syncDeletions' = Append(syncDeletions,
               [table_name |-> k[1], record_id |-> k[2], deleted_at |-> t])
    /\ UNCHANGED <<data, deletedIds, remote, phase, res, sysVars>>

\* localFlatData = applyDeletionsToLocal(flattenData(localData), remoteDeletions)
ApplyDeletions ==
    /\ phase = "build"
    /\ phase' = "applied"
    /\ res' = [ local |-> flattenData(data),
                out |-> applyDeletionsToLocal(flattenData(data), syncDeletions) ]
    /\ UNCHANGED <<data, deletedIds, remote, syncDeletions, sysVars>>

NoRes == [local |-> EmptyFlat, out |-> EmptyFlat]

InitDel ==
    /\ data = getInitialData
    /\ deletedIds = getInitialDeletedIds
    /\ remote = EmptyFlat
    /\ syncDeletions = <<>>
    /\ phase = "build"
    /\ res = NoRes
    /\ SysIdle

NextDel == DrawLocal \/ LogDeletion \/ ApplyDeletions

SpecDel == InitDel /\ [][NextDel]_vars

-----------------------------------------------------------------------------
(* Properties of applyDeletionsToLocal (checked under SpecDel)              *)

\* Tables whose records pass through filterItems.
DirectTables == TableSet \ {"case_documents", "profiles"}

KeysOf(items) == {Key(items[i]) : i \in 1..Len(items)}

TombTimes(tableName, id) ==
    { syncDeletions[j].deleted_at :
        j \in { n \in 1..Len(syncDeletions) :
                  /\ syncDeletions[n].table_name = tableName
                  /\ syncDeletions[n].record_id = id } }

C2_CascadeCompleteness ==
    phase = "applied" =>
      /\ \A i \in 1..Len(res.out.sessions) :
            res.out.sessions[i].stage_id \in Ids(res.out.stages)
      /\ \A i \in 1..Len(res.out.stages) :
            res.out.stages[i].case_id \in Ids(res.out.cases)
      /\ \A i \in 1..Len(res.out.cases) :
            res.out.cases[i].client_id \in Ids(res.out.clients)

\* A tombstone purged a client; its case, stage and session carry no
\* tombstone and are gone from the output with it.
C2_Witness ==
    /\ phase = "applied"
    /\ Len(res.local.sessions) > 0
    /\ Len(syncDeletions) = 1
    /\ syncDeletions[1].table_name = "clients"
    /\ res.out.clients = <<>>
    /\ res.out.cases = <<>> /\ res.out.stages = <<>> /\ res.out.sessions = <<>>

-----------------------------------------------------------------------------
(* The full-sync computation between the fetch and the first remote write   *)
(* (lines 252-375), and the specification that draws its inputs: the local  *)
(* graph and the pending deletions through the user's handlers, the remote  *)
(* rows and the deletion log through another device's pushes and deletes.   *)

SyncPlan(localData, dIds, remoteRaw, deletions) ==
    LET remoteFlatData == transformRemoteToLocal(remoteRaw)
        localFlatData == applyDeletionsToLocal(flattenData(localData), deletions)
        loop == MergeAll(localFlatData, remoteFlatData, dIds)
        net == SafetyNet(remoteFlatData, loop)
    IN  [ local |-> localFlatData,
          remoteFlat |-> remoteFlatData,
          fast |-> FastPath(localFlatData, remoteRaw, dIds),
          loopMerged |-> loop.merged,
          loopUpserts |-> loop.upserts,
          merged |-> net.merged,
          upserts |-> net.upserts ]

CanDelete ==
    /\ phase = "draw" \/ (phase = "run" /\ hist.loaded)
    /\ NPending(deletedIds) < MaxPending

RemoveAt(s, i) == SubSeq(s, 1, i - 1) \o SubSeq(s, i + 1, Len(s))

\* createDeleteFunction(entity)(id)
createDeleteFunction(d, entity, id) == [d EXCEPT ![entity] = Append(@, id)]

deleteClient ==
    /\ CanDelete
    /\ \E i \in 1..Len(data.clients) :
         /\ data' = [data EXCEPT !.clients = RemoveAt(@, i)]
         /\ deletedIds' = createDeleteFunction(deletedIds, "clients", data.clients[i].id)

deleteCase ==
    /\ CanDelete
    /\ \E i \in 1..Len(data.clients) : \E j \in 1..Len(data.clients[i].cases) :
         LET caseId == data.clients[i].cases[j].id
             docsToDelete == SelectSeq(data.documents, LAMBDA doc : doc.caseId = caseId)
         IN  /\ data' = [data EXCEPT
                           !.clients[i].cases = RemoveAt(@, j),
                           !.documents = SelectSeq(@, LAMBDA doc : doc.caseId # caseId)]
             /\ deletedIds' = [deletedIds EXCEPT
                   !.cases = Append(@, caseId),
                   !.documents = @ \o [n \in 1..Len(docsToDelete) |-> docsToDelete[n].id],
                   !.documentPaths =
                       @ \o [n \in 1..Len(docsToDelete) |-> docsToDelete[n].storagePath]]

deleteStage ==
    /\ CanDelete
    /\ \E i \in 1..Len(data.clients) : \E j \in 1..Len(data.clients[i].cases) :
         \E k \in 1..Len(data.clients[i].cases[j].stages) :
            /\ data' = [data EXCEPT !.clients[i].cases[j].stages = RemoveAt(@, k)]
            /\ deletedIds' = createDeleteFunction(deletedIds, "stages",
                                 data.clients[i].cases[j].stages[k].id)

deleteSession ==
    /\ CanDelete
    /\ \E i \in 1..Len(data.clients) : \E j \in 1..Len(data.clients[i].cases) :
         \E k \in 1..Len(data.clients[i].cases[j].stages) :
            \E l \in 1..Len(data.clients[i].cases[j].stages[k].sessions) :
               /\ data' = [data EXCEPT
                             !.clients[i].cases[j].stages[k].sessions = RemoveAt(@, l)]
               /\ deletedIds' = createDeleteFunction(deletedIds, "sessions",
                                    data.clients[i].cases[j].stages[k].sessions[l].id)

\* deleteAdminTask, deleteAppointment, deleteAccountingEntry, deleteInvoice
deleteSimple ==
    /\ CanDelete
    /\ \E f \in {"adminTasks", "appointments", "accountingEntries", "invoices"} :
         \E i \in 1..Len(data[f]) :
            /\ data' = [data EXCEPT ![f] = RemoveAt(@, i)]
            /\ deletedIds' = createDeleteFunction(deletedIds, f, data[f][i].id)

\* handleDeleteAssistant refuses the name 'unassigned'.
deleteAssistant ==
    /\ CanDelete
    /\ \E i \in 1..Len(data.assistants) :
         /\ data.assistants[i] # "unassigned"
         /\ Fits("assistants")
         /\ data' = [data EXCEPT !.assistants = RemoveAt(@, i)]
         /\ deletedIds' = createDeleteFunction(deletedIds, "assistants", data.assistants[i])

DeleteLocal ==
    /\ \/ deleteClient \/ deleteCase \/ deleteStage \/ deleteSession
       \/ deleteSimple \/ deleteAssistant
    /\ UNCHANGED <<remote, syncDeletions, phase, res, sysVars>>

\* Another device's upsert: a row with a key the table does not hold.  Its
\* parent is a row of the parent table, or a row that is gone from it (a
\* delete removes the row with the given key alone: the tables declare no
\* foreign keys, and deleteClient or deleteInvoice name no descendant).
RemoteShapes ==
    { <<"clients", "c", "", "", "">>, <<"cases", "k", "client_id", "clients", "c1">>,
      <<"stages", "st", "case_id", "cases", "k1">>,
      <<"sessions", "s", "stage_id", "stages", "st1">>,
      <<"admin_tasks", "a", "", "", "">>, <<"appointments", "p", "", "", "">>,
      <<"accounting_entries", "e", "client_id", "clients", "c1">>,
      <<"invoices", "i", "client_id", "clients", "c1">>,
      <<"invoice_items", "it", "invoice_id", "invoices", "i1">>,
      <<"case_documents", "d", "case_id", "cases", "k1">>,
      <<"profiles", "u", "", "", "">>, <<"site_finances", "f", "", "", "">> }

RemoteUpsert ==
    /\ phase = "draw"
    /\ NRemote(remote) < MaxSide
    /\ NDrawn < MaxMerge
    /\ \/ \E sh \in RemoteShapes, t \in Times :
            /\ Fits(sh[1])
            /\ LET row == [id |-> FreshId(sh[2], Ids(remote[sh[1]])), updated_at |-> t, val |-> "b"]
               IN  IF sh[3] = ""
                   THEN remote' = [remote EXCEPT ![sh[1]] = Append(@, row)]
                   ELSE \E parent \in Ids(remote[sh[4]]) \cup {sh[5]} :
                           remote' = [remote EXCEPT ![sh[1]] =
                                        Append(@, [f \in {sh[3]} |-> parent] @@ row)]
       \/ \E n \in AssistantNames \ KeysOf(remote.assistants) :
            /\ Fits("assistants")
            /\ remote' = [remote EXCEPT !.assistants = Append(@, [name |-> n])]
    /\ UNCHANGED <<data, deletedIds, syncDeletions, phase, res, sysVars>>

\* Another device's deleteDataFromSupabase: the log entry, then the row
\* (the row alone: the tables declare no foreign keys).
RemoteDelete ==
    /\ phase = "draw"
    /\ Len(syncDeletions) < MaxRemoteDeletes
    /\ \E t \in TableSet \ {"profiles"}, td \in DelTimes :
         \E i \in 1..Len(remote[t]) :
            /\ syncDeletions' = Append(syncDeletions,
                  [table_name |-> t, record_id |-> Key(remote[t][i]), deleted_at |-> td])
            /\ remote' = [remote EXCEPT ![t] = RemoveAt(@, i)]
    /\ UNCHANGED <<data, deletedIds, phase, res, sysVars>>

MergeStep ==
    /\ phase = "draw"
    /\ phase' = "merged"
    /\ res' = SyncPlan(data, deletedIds, remote, syncDeletions)
    /\ UNCHANGED <<data, deletedIds, remote, syncDeletions, sysVars>>

InitMerge ==
    /\ data = getInitialData
    /\ deletedIds = getInitialDeletedIds
    /\ remote = EmptyFlat
    /\ syncDeletions = <<>>
    /\ phase = "draw"
    /\ res = NoRes
    /\ SysIdle

NextMerge == DrawLocal \/ DeleteLocal \/ RemoteUpsert \/ RemoteDelete \/ MergeStep

SpecMerge == InitMerge /\ [][NextMerge]_vars

-----------------------------------------------------------------------------
(* Properties of the merge and the safety net (checked under SpecMerge)     *)

\* The sequence holds exactly one item with x's key, and it is x.
Keeps(items, x) ==
    /\ \E k \in 1..Len(items) : items[k] = x
    /\ \A k \in 1..Len(items) : Key(items[k]) = Key(x) => items[k] = x

\* Pairs (a, b) of the merge loop's inputs for table t: a local, b remote, same
\* key, a's parent not pending deletion.
SameKeyPairs(t) ==
    { <<res.local[t][i], res.remoteFlat[t][j]>> :
        <<i, j>> \in { p \in (1..Len(res.local[t])) \X (1..Len(res.remoteFlat[t])) :
                        /\ Key(res.local[t][p[1]]) = Key(res.remoteFlat[t][p[2]])
                        /\ ~isParentDeleted(t, res.local[t][p[1]],
                                            deletedIdsSets(deletedIds)) } }

C4_NoResurrection ==
    phase = "merged" =>
      \A t \in TableSet :
        \A id \in deletedIdsSets(deletedIds)[entityKey(t)] :
          /\ id \notin KeysOf(res.merged[t])
          /\ id \notin KeysOf(res.upserts[t])

\* The parent references of the tables with a declared parent.
ParentRefs ==
    { <<"cases", "client_id", "clients">>, <<"stages", "case_id", "cases">>,
      <<"sessions", "stage_id", "stages">>, <<"case_documents", "caseId", "cases">>,
      <<"invoice_items", "invoice_id", "invoices">> }

\* Every record of the table in merged and in upserts has its parent id among
\* the remote ids or the upsert ids of the parent table.
ParentsValid(ref) ==
    LET valid == Ids(res.remoteFlat[ref[3]]) \cup Ids(res.upserts[ref[3]])
    IN  /\ \A i \in 1..Len(res.merged[ref[1]]) : Get(res.merged[ref[1]][i], ref[2]) \in valid
        /\ \A i \in 1..Len(res.upserts[ref[1]]) : Get(res.upserts[ref[1]][i], ref[2]) \in valid

-----------------------------------------------------------------------------
(* The running device: the state the hooks hold, the remote calls of a sync, *)
(* and the callbacks that bring its result back.                             *)

\* A map of children that holds no list.
childrenNone(items, fk, parentId) == <<>>

\* map.get(parentId) || []: the items pushed under the parent's id, in the
\* order of the flat list.
childrenOf(items, fk, parentId) == SelectSeq(items, LAMBDA x : Get(x, fk) = parentId)

\* constructData: one sequence per table -> nested graph.  A child is
\* attached to the parent its reference names and dropped when no record of
\* the parent table has that id.
constructData(flatData) ==
    LET sessionsOf(stageId) == childrenOf(flatData.sessions, "stage_id", stageId)
        stage(st) == [sessions |-> sessionsOf(st.id)] @@ st
        stagesOf(caseId) ==
            LET own == childrenOf(flatData.stages, "case_id", caseId)
            IN  [i \in 1..Len(own) |-> stage(own[i])]
        caseItem(cs) == [stages |-> stagesOf(cs.id)] @@ cs
        casesOf(clientId) ==
            LET own == childrenOf(flatData.cases, "client_id", clientId)
            IN  [i \in 1..Len(own) |-> caseItem(own[i])]
        itemsOf(invoiceId) == childrenOf(flatData.invoice_items, "invoice_id", invoiceId)
    IN  [ clients |-> [i \in 1..Len(flatData.clients) |->
                         [cases |-> casesOf(flatData.clients[i].id)] @@ flatData.clients[i]],
          adminTasks |-> flatData.admin_tasks,
          appointments |-> flatData.appointments,
          accountingEntries |-> flatData.accounting_entries,
          assistants |-> [i \in 1..Len(flatData.assistants) |-> flatData.assistants[i].name],
          invoices |-> [i \in 1..Len(flatData.invoices) |->
                          [items |-> itemsOf(flatData.invoices[i].id)] @@ flatData.invoices[i]],
          documents |-> flatData.case_documents,
          profiles |-> flatData.profiles,
          siteFinances |-> flatData.site_finances ]

\* reviveDate(x.updated_at): the date, now when there is none
reviveDate(item) == IF "updated_at" \in DOMAIN item THEN item.updated_at ELSE Now

\* The fields every validated record is rebuilt from (val: its payload).
Plain(item) == [id |-> item.id, updated_at |-> reviveDate(item), val |-> Get(item, "val")]

\* safeArray(arr, mapFn) for a mapFn that returns undefined on a record
\* without id (or, for clients and documents, without name)
safeArray(arr, F(_)) ==
    LET ok == SelectSeq(arr, LAMBDA x : "id" \in DOMAIN x /\ "val" \in DOMAIN x)
    IN  [i \in 1..Len(ok) |-> F(ok[i])]

\* Array.from(new Set(list)): the first occurrence of every element, in order
RECURSIVE Uniq(_, _)
Uniq(list, acc) ==
    IF list = <<>> THEN acc
    ELSE Uniq(Tail(list), IF Head(list) \in Range(acc) THEN acc ELSE Append(acc, Head(list)))

validateAssistantsList(list) ==
    LET uniqueAssistants == Uniq(list, <<>>)
    IN  IF "unassigned" \in Range(uniqueAssistants) THEN uniqueAssistants
        ELSE Append(uniqueAssistants, "unassigned")

validateDocuments(doc) ==
    Plain(doc) @@
    [ caseId |-> Get(doc, "caseId"),
      storagePath |-> IF Get(doc, "storagePath") = Undefined THEN "" ELSE doc.storagePath,
      localState |-> IF Get(doc, "localState") = Undefined THEN "pending_download"
                     ELSE doc.localState,
      isLocalOnly |-> Truthy(doc, "isLocalOnly") ]

\* validateAndFixData: every record is rebuilt from the fields the function
\* names, so a field it does not name (client_id of a case, case_id of a
\* stage, stage_id of a session, invoice_id of an item) is gone.
validateAndFixData(loadedData) ==
    LET session(s) == Plain(s)
        stage(st) == Plain(st) @@ [sessions |-> safeArray(st.sessions, session)]
        caseItem(cs) == Plain(cs) @@ [stages |-> safeArray(cs.stages, stage)]
        client(c) == Plain(c) @@ [cases |-> safeArray(c.cases, caseItem)]
        clientIdOf(x) == IF Get(x, "clientId") = Undefined THEN "" ELSE x.clientId
        entry(e) == Plain(e) @@ [clientId |-> clientIdOf(e)]
        item(it) == Plain(it)
        invoice(inv) ==
            Plain(inv) @@ [clientId |-> clientIdOf(inv), items |-> safeArray(inv.items, item)]
    IN  [ clients |-> safeArray(loadedData.clients, client),
          adminTasks |-> safeArray(loadedData.adminTasks, Plain),
          appointments |-> safeArray(loadedData.appointments, Plain),
          accountingEntries |-> safeArray(loadedData.accountingEntries, entry),
          invoices |-> safeArray(loadedData.invoices, invoice),
          assistants |-> validateAssistantsList(loadedData.assistants),
          documents |-> safeArray(loadedData.documents, validateDocuments),
          profiles |-> safeArray(loadedData.profiles, Plain),
          siteFinances |-> safeArray(loadedData.siteFinances, Plain) ]

-----------------------------------------------------------------------------
(* The remote calls of useOnlineData.ts *)

\* flatDeletes (useSync.ts, lines 388-401): the keys to delete, per table.
\* There is no entry for profiles.
flatDeletes(dIds) ==
    [ t \in TableSet |-> IF t = "profiles" THEN <<>> ELSE dIds[entityKey(t)] ]

\* An order that deletes the parent tables before their children.
deletionOrderParentsFirst ==
    << "profiles", "site_finances", "clients", "assistants", "accounting_entries",
       "appointments", "admin_tasks", "invoices", "cases", "stages", "sessions",
       "invoice_items", "case_documents" >>

deletionOrder ==
    << "case_documents", "invoice_items", "sessions", "stages", "cases", "invoices",
       "admin_tasks", "appointments", "accounting_entries", "assistants", "clients",
       "site_finances", "profiles" >>

\* The tables of an order that have something to send.
Busy(order, perTable) == {n \in 1..Len(order) : Len(perTable[order[n]]) > 0}

\* .delete().in(primaryKeyColumn, ids): the rows with these keys go, and no
\* other row (the schema declares no reference between the tables).
DeleteIn(rows, ids) == SelectSeq(rows, LAMBDA r : Key(r) \notin Range(ids))

\* The log entries of one table (deleted_at is the server's now()).
deletionsLog(table, ids) ==
    [i \in 1..Len(ids) |-> [table_name |-> table, record_id |-> ids[i], deleted_at |-> Now]]

\* A loop over deletionOrder that passes over the table whose delete fails.
deleteDataCarriesOn(rows, log, deletions, failAt, logged) ==
    [ rows |-> [t \in TableSet |->
                  IF failAt # 0 /\ deletionOrder[failAt] = t THEN rows[t]
                  ELSE DeleteIn(rows[t], deletions[t])],
      log |-> log ]

\* deleteDataFromSupabase.  failAt is the position in deletionOrder of the
\* table whose delete fails (0: none fails); logged tells whether the inserts
\* into sync_deletions succeed (a failed insert is only warned about).
\* The tables before failAt are logged and deleted, the table at failAt is
\* logged and not deleted, the tables after it are not reached.
deleteDataFromSupabase(rows, log, deletions, failAt, logged) ==
    LET reached(n) == failAt = 0 \/ n <= failAt
        done(n) == failAt = 0 \/ n < failAt
        pos(t) == CHOOSE n \in 1..Len(deletionOrder) : deletionOrder[n] = t
        RECURSIVE Log(_)
        Log(n) ==
            IF n > Len(deletionOrder) THEN <<>>
            ELSE (IF reached(n) /\ logged /\ deletionOrder[n] # "profiles"
                  THEN deletionsLog(deletionOrder[n], deletions[deletionOrder[n]])
                  ELSE <<>>) \o Log(n + 1)
    IN  [ rows |-> [t \in TableSet |->
                      IF done(pos(t)) THEN DeleteIn(rows[t], deletions[t]) ELSE rows[t]],
          log |-> log \o Log(1) ]

\* dataToUpsert: local field names -> columns.  Of a session the function
\* reads the columns under their remote names; val stands for those that
\* have the same name on both sides.
dataToUpsert(data_) ==
    [ t \in TableSet |->
        CASE t \in {"accounting_entries", "invoices"} ->
               [i \in 1..Len(data_[t]) |-> Rename(data_[t][i], "clientId", "client_id")]
          [] t = "sessions" ->
               [i \in 1..Len(data_[t]) |->
                    [f \in (DOMAIN data_[t][i]) \cap {"id", "stage_id", "updated_at", "val"}
                       |-> data_[t][i][f]]]
          [] t = "case_documents" ->
               LET documentsToUpsert ==
                       SelectSeq(data_[t], LAMBDA doc : ~Truthy(doc, "isLocalOnly"))
               IN  [i \in 1..Len(documentsToUpsert) |->
                       Rename(Rename(Without(documentsToUpsert[i], {"localState", "isLocalOnly"}),
                                     "caseId", "case_id"),
                              "storagePath", "storage_path")]
          [] OTHER -> data_[t] ]

\* An order that upserts the child tables before their parents.
upsertOrderChildrenFirst ==
    << "site_finances", "accounting_entries", "appointments", "admin_tasks",
       "case_documents", "invoice_items", "invoices", "sessions", "stages", "cases",
       "clients", "assistants", "profiles" >>

\* The order of the upsertTable calls.
upsertOrder ==
    << "profiles", "assistants", "clients", "cases", "stages", "sessions", "invoices",
       "invoice_items", "case_documents", "admin_tasks", "appointments",
       "accounting_entries", "site_finances" >>

\* .upsert(records): a row with the key of a record is replaced by it, a
\* record with a new key is added.
RECURSIVE upsertTable(_, _)
upsertTable(rows, records) ==
    IF records = <<>> THEN rows
    ELSE upsertTable(MapSet(rows, Key(Head(records)), Head(records)), Tail(records))

\* The positions in upsertOrder of the tables whose upserts are issued
\* together and awaited with Promise.all.
ParallelUpserts ==
    { n \in 1..Len(upsertOrder) :
        upsertOrder[n] \in {"admin_tasks", "appointments", "accounting_entries",
                            "site_finances"} }

\* upsertDataToSupabase.  failAt is the position in upsertOrder of the table
\* whose error is thrown (0: none fails).  The tables up to the first of
\* ParallelUpserts are written one after the other, so those before failAt are
\* written and those after it are not issued; the tables of ParallelUpserts
\* are issued together, and when one of them fails the others are written
\* except those in lost, whose upserts failed too.
\* results holds the rows the server returns (.select()).
upsertDataToSupabase(rows, data_, failAt, lost) ==
    LET records == dataToUpsert(data_)
        pos(t) == CHOOSE n \in 1..Len(upsertOrder) : upsertOrder[n] = t
        together == failAt \in ParallelUpserts
        issued(t) == \/ failAt = 0 \/ pos(t) <= failAt
                     \/ together /\ pos(t) \in ParallelUpserts
        done(t) == /\ issued(t) /\ pos(t) # failAt
                   /\ ~(together /\ pos(t) \in lost)
    IN  [ rows |-> [t \in TableSet |->
                      IF done(t) THEN upsertTable(rows[t], records[t]) ELSE rows[t]],
          results |-> [t \in TableSet |-> IF done(t) THEN records[t] ELSE <<>>],
          sent |-> [t \in TableSet |-> IF issued(t) THEN records[t] ELSE <<>>] ]

-----------------------------------------------------------------------------
(* The end of manualSync, fetchAndRefresh, and the callbacks *)

\* upsertedDataMap: one map over the returned rows of all the tables, keyed
\* by id ?? name (a later table overwrites an earlier one).
upsertedDataMap(results) ==
    LET upsertedFlatData == transformRemoteToLocal(results)
        RECURSIVE All(_)
        All(n) == IF n > Len(Tables) THEN <<>>
                  ELSE upsertedFlatData[Tables[n]] \o All(n + 1)
    IN  All(1)

\* mergedItems.map(item => upsertedDataMap.get(item.id ?? item.name) || item)
Reconcile(mergedFlatData, results) ==
    LET With(map, merged) ==
            [ t \in TableSet |->
                [i \in 1..Len(merged[t]) |->
                    IF MapHas(map, Key(merged[t][i]))
                    THEN MapGet(map, Key(merged[t][i]))
                    ELSE merged[t][i]] ]
    IN  CHOOSE out \in { With(map, merged) : map \in {upsertedDataMap(results)},
                                             merged \in {mergedFlatData} } : TRUE

mergeForRefresh(local, remote_) ==
    LET RECURSIVE Loop(_, _)
        Loop(n, finalItems) ==
            IF n > Len(remote_) THEN finalItems
            ELSE LET remoteItem == remote_[n]
                     id == Key(remoteItem)
                 IN  Loop(n + 1,
                          IF MapHas(finalItems, id)
                          THEN IF DateMs(remoteItem) > DateMs(MapGet(finalItems, id))
                               THEN MapSet(finalItems, id, remoteItem)
                               ELSE finalItems
                          ELSE MapSet(finalItems, id, remoteItem))
        RECURSIVE Locals(_, _)
        Locals(n, finalItems) ==
            IF n > Len(local) THEN finalItems
            ELSE Locals(n + 1, MapSet(finalItems, Key(local[n]), local[n]))
    IN  Loop(1, Locals(1, <<>>))

\* The merged flat data of fetchAndRefresh (lines 450-488)
RefreshPlan(localData, dIds, remoteRaw, deletions) ==
    LET remoteFlatDataUntyped == transformRemoteToLocal(remoteRaw)
        sets == deletedIdsSets(dIds)
        remoteFlatData ==
            [ t \in TableSet |->
                SelectSeq(remoteFlatDataUntyped[t],
                          LAMBDA item : Key(item) \notin sets[entityKey(t)]) ]
        localFlatData == applyDeletionsToLocal(flattenData(localData), deletions)
        names == Uniq([i \in 1..Len(localFlatData.assistants) |-> localFlatData.assistants[i].name]
                      \o [i \in 1..Len(remoteFlatData.assistants) |->
                              remoteFlatData.assistants[i].name], <<>>)
    IN  [ t \in TableSet |->
            IF t = "assistants" THEN [i \in 1..Len(names) |-> [name |-> names[i]]]
            ELSE mergeForRefresh(localFlatData[t], remoteFlatData[t]) ]

\* localMeta?.<field> || doc.<field> for the metadata record with the doc's id
localMeta(meta, doc, field) ==
    IF MapHas(meta, doc.id) /\ Truthy(MapGet(meta, doc.id), field)
    THEN MapGet(meta, doc.id)[field]
    ELSE doc[field]

\* handleDataSynced: the data it sets and the metadata store it leaves.
handleDataSynced(mergedData, meta) ==
    LET mergedDoc(doc) ==
            validateDocuments([doc EXCEPT !.localState = localMeta(meta, doc, "localState"),
                                          !.isLocalOnly = localMeta(meta, doc, "isLocalOnly")])
        Set(validatedMergedData, finalDocs) ==
            [ data |-> [validatedMergedData EXCEPT !.documents = finalDocs],
              meta |-> upsertTable(meta, SelectSeq(finalDocs, LAMBDA doc : doc.isLocalOnly)) ]
    IN  CHOOSE out \in
          { Set(validatedMergedData, finalDocs) :
              validatedMergedData \in
                  { validateAndFixData(d) : d \in {mergedData} },
              finalDocs \in
                  { [i \in 1..Len(v.documents) |-> mergedDoc(v.documents[i])] :
                      v \in { validateAndFixData(d) : d \in {mergedData} } } } : TRUE

\* handleDeletionsSynced: the list it would set, computed from the
\* deletedIds of the render that created the callback.
handleDeletionsSynced(closureDeletedIds, syncedDeletions) ==
    [ k \in DeletedKeys |->
        SelectSeq(closureDeletedIds[k], LAMBDA id : id \notin Range(syncedDeletions[k])) ]

FailureStatuses == {"error", "unconfigured", "uninitialized"}

\* The status manualSync and fetchAndRefresh set after their callbacks.
StatusAfterCallbacksError == "error"

StatusAfterCallbacks == "synced"

\* A call of manualSync ("sync") or fetchAndRefresh ("refresh") past its
\* guard: the props of the render that created the callback, the position of
\* the call, and its local variables.
NewOp(kind, localData, dIds, suppressed) ==
    [ kind |-> kind, pc |-> IF kind = "sync" THEN "schema" ELSE "fetch",
      localData |-> localData, deletedIds |-> dIds, locallyDeletedDocIds |-> suppressed,
      merged |-> EmptyFlat, upserts |-> EmptyFlat,
      successfulDeletions |-> getInitialDeletedIds ]

\* A guard that lets every call run.
manualSyncGuardNone(capturedStatus, online, authLoading, currentUser) == "run"

\* The guards at the head of manualSync: a plain return while the captured
\* syncStatus is syncing or auth is loading, the status error while offline
\* or without a user, and otherwise the sync runs.
manualSyncGuard(capturedStatus, online, authLoading, currentUser) ==
    IF capturedStatus = "syncing" THEN "return"
    ELSE IF authLoading THEN "return"
    ELSE IF ~online \/ currentUser = NoUser THEN "error"
    ELSE "run"

\* The call passes the guards of manualSync; fetchAndRefresh passes its own
\* on the same condition.
PastGuard(capturedStatus) ==
    manualSyncGuard(capturedStatus, isOnline, isAuthLoading, user) = "run"

\* An end that leaves the status as it is.
EndFailedSilently(i, status) ==
    /\ ops' = RemoveAt(ops, i)
    /\ UNCHANGED <<syncStatus, data, deletedIds, isDirty, idb, queueDue, hist>>

\* The operation at position i ends at a failed check, or in the catch
\* branch of fetchAndRefresh.
EndFailed(i, status) ==
    /\ ops' = RemoveAt(ops, i)
    /\ syncStatus' = status
    /\ hist' = [hist EXCEPT !.errorTable = "", !.caught = <<>>]
    /\ UNCHANGED <<data, deletedIds, isDirty, idb, queueDue>>

\* An error message, as the set of the texts it contains among those the
\* code looks for.  The messages of the server's errors: relation "t" does
\* not exist; column "c" does not exist; Could not find the table 't' in the
\* schema cache; Failed to fetch (the request did not reach the server); and
\* any other message.
ServerErrors ==
    { {"relation", "does not exist"}, {"column", "does not exist"},
      {"could not find the table"}, {"failed to fetch"}, {} }

\* fetchDataFromSupabase: `Failed to fetch ${name}: ${res.error.message}`.
fetchDataError(message) == message \cup {"failed to fetch"}

\* The status the catch branch of manualSync sets for the message of the
\* error it caught ('failed to fetch' is looked for in the lowercased
\* message, and the message is then replaced by a fixed one).
catchStatus(message) ==
    LET errorMessage == IF "failed to fetch" \in message THEN {} ELSE message
    IN  IF \/ {"column", "does not exist"} \subseteq errorMessage
           \/ "relation" \in errorMessage
        THEN "uninitialized" ELSE "error"

\* The catch branch of manualSync after a call that is not the write of a
\* table has thrown: message is the server's, thrown the one of the error.
EndCaught(i, message, thrown) ==
    /\ ops' = RemoveAt(ops, i)
    /\ syncStatus' = catchStatus(thrown)
    /\ hist' = [hist EXCEPT !.errorTable = "", !.caught = <<message>>]
    /\ UNCHANGED <<data, deletedIds, isDirty, idb, queueDue>>

\* The catch branch after a remote write of a table has failed (err.table is
\* set).  The message contains 'relation', or 'column' and 'does not exist':
\* status uninitialized with the error's message, which names the table when
\* it is the message upsertTable built (inMessage); otherwise status error
\* with the message prefixed by the table.
\* message is the message of the server's error, which both
\* deleteDataFromSupabase and upsertTable carry into the error they throw.
EndFailedAt(i, table, inMessage, message) ==
    /\ ops' = RemoveAt(ops, i)
    /\ syncStatus' = catchStatus(message)
    /\ \E named \in (IF inMessage \/ catchStatus(message) = "error"
                      THEN {table} ELSE {table, ""}) :
          hist' = [hist EXCEPT !.errorTable = named, !.caught = <<message>>]
    /\ UNCHANGED <<data, deletedIds, isDirty, idb, queueDue>>

\* An end that reports the captured pending deletions as deleted.
EndSyncedReporting(i, mergedFlatData, callsDeletions) ==
    LET r == handleDataSynced(constructData(mergedFlatData), idb.meta)
    IN  /\ data' = r.data
        /\ idb' = [idb EXCEPT !.meta = r.meta]
        /\ isDirty' = FALSE
        /\ queueDue' = TRUE
        /\ deletedIds' = handleDeletionsSynced(ops[i].deletedIds, ops[i].deletedIds)
        /\ syncStatus' = StatusAfterCallbacks
        /\ ops' = RemoveAt(ops, i)

\* The operation at position i ends with its callbacks: onDataSynced, then
\* (full sync, after the remote writes) onDeletionsSynced, then the status.
EndSynced(i, mergedFlatData, callsDeletions) ==
    LET op == ops[i]
        changed == \E k \in DeletedKeys : op.successfulDeletions[k] # <<>>
    IN  \E r \in { handleDataSynced(finalMergedData, idb.meta) :
                      finalMergedData \in { constructData(flat) : flat \in {mergedFlatData} } } :
          /\ data' = r.data
          /\ idb' = [idb EXCEPT !.meta = r.meta]
          /\ isDirty' = FALSE
          /\ queueDue' = TRUE
          /\ deletedIds' = IF callsDeletions /\ changed
                           THEN handleDeletionsSynced(op.deletedIds, op.successfulDeletions)
                           ELSE deletedIds
          /\ syncStatus' = StatusAfterCallbacks
          /\ ops' = RemoveAt(ops, i)

-----------------------------------------------------------------------------
(* The steps of the running device.  A step runs a callback from one await  *)
(* to the next; the remote calls answer with success or with an error.      *)

pureVars == <<phase, res>>

server == <<remote, syncDeletions, storage>>

docVars == <<idb, passes, locallyDeletedDocIds, queueDue>>

\* The run holds up to MaxOps operations at a time and MaxStarts in all.
CanStart == Len(ops) < MaxOps /\ hist.started < MaxStarts

\* The loadData effect on a device with an empty store, online: it sets the
\* stored data and calls the manualSync of the render it was created in,
\* whose props are the initial state (syncStatus 'loading').
LoadData ==
    /\ phase = "run" /\ ~hist.loaded
    /\ data' = validateAndFixData(getInitialData)
    /\ deletedIds' = getInitialDeletedIds
    /\ PastGuard("loading")
    /\ ops' = Append(ops, NewOp("sync", getInitialData, getInitialDeletedIds, {}))
    /\ syncStatus' = "syncing"
    /\ hist' = [hist EXCEPT !.loaded = TRUE, !.started = @ + 1, !.caught = <<>>]
    /\ UNCHANGED <<pureVars, hookProps, server, isDirty, handlers, docVars>>

\* The sync button, or the auto-sync timer: manualSync of the current render.
InvokeManualSync ==
    /\ phase = "run" /\ hist.loaded
    /\ CanStart
    /\ PastGuard(syncStatus)
    /\ ops' = Append(ops, NewOp("sync", data, deletedIds, locallyDeletedDocIds))
    /\ syncStatus' = "syncing"
    /\ hist' = [hist EXCEPT !.started = @ + 1, !.caught = <<>>]
    /\ UNCHANGED <<pureVars, hookProps, server, data, deletedIds, isDirty, handlers, docVars>>

\* The ids of all the records of the graph.
AllIds(d) ==
    LET f == flattenData(d)
    IN  UNION {Ids(f[t]) : t \in TableSet \ {"assistants"}}

\* setClients from a form: a new client, or a new case of a client.
UserAdd ==
    /\ phase = "run"
    /\ AddClient \/ AddCase
    /\ isDirty' = TRUE
    /\ hist' = [hist EXCEPT !.used = @ \cup (AllIds(data') \ AllIds(data))]
    /\ UNCHANGED <<pureVars, hookProps, server, deletedIds, syncStatus, ops, handlers, docVars>>

UserDeleteClient ==
    /\ phase = "run"
    /\ deleteClient
    /\ isDirty' = TRUE
    /\ UNCHANGED <<pureVars, hookProps, server, syncStatus, ops, handlers, docVars, hist>>

\* AdminPage.toggleUserApproval up to its await: the optimistic setUsers.
\* The handler holds the fetchAndRefresh of the render it was created in.
ToggleStart ==
    /\ phase = "run" /\ hist.loaded
    /\ Len(handlers) < MaxHandlers /\ hist.toggles < MaxToggles
    /\ \E i \in 1..Len(data.profiles) :
         /\ data' = [data EXCEPT !.profiles[i] = [@ EXCEPT !.val = "b", !.updated_at = Now]]
         /\ handlers' = Append(handlers,
                [ id |-> data.profiles[i].id, syncStatus |-> syncStatus,
                  localData |-> data, deletedIds |-> deletedIds,
                  locallyDeletedDocIds |-> locallyDeletedDocIds ])
    /\ isDirty' = TRUE
    /\ hist' = [hist EXCEPT !.toggles = @ + 1]
    /\ UNCHANGED <<pureVars, hookProps, server, deletedIds, syncStatus, ops, docVars>>

\* The rest of the handler: the remote update has answered (the column is
\* written, or the call failed), and fetchAndRefresh is called either way.
ToggleResume ==
    /\ phase = "run" /\ handlers # <<>>
    /\ CanStart
    /\ LET h == Head(handlers)
       IN  /\ \/ remote' = [remote EXCEPT !.profiles =
                    [i \in 1..Len(@) |-> IF @[i].id = h.id THEN [@[i] EXCEPT !.val = "b"]
                                         ELSE @[i]]]
              \/ remote' = remote
           /\ IF PastGuard(h.syncStatus)
              THEN /\ ops' = Append(ops, NewOp("refresh", h.localData, h.deletedIds,
                                               h.locallyDeletedDocIds))
                   /\ syncStatus' = "syncing"
                   /\ hist' = [hist EXCEPT !.started = @ + 1, !.caught = <<>>]
              ELSE UNCHANGED <<ops, syncStatus, hist>>
    /\ handlers' = Tail(handlers)
    /\ UNCHANGED <<pureVars, hookProps, syncDeletions, storage, data, deletedIds, isDirty, docVars>>

\* checkSupabaseSchema has answered.
SchemaCheck ==
    \E i \in 1..Len(ops) :
        /\ ops[i].pc = "schema"
        /\ \/ /\ ops' = [ops EXCEPT ![i].pc = "fetch"]
              /\ syncStatus' = "syncing"
              /\ UNCHANGED <<data, deletedIds, isDirty, idb, queueDue, hist>>
           \/ \E status \in FailureStatuses : EndFailed(i, status)
        /\ UNCHANGED <<pureVars, hookProps, server, handlers, passes, locallyDeletedDocIds>>

\* The two fetches have answered: the merge is computed from the rows and the
\* log they returned and from the props of the callback.
FetchStep ==
    \E i \in 1..Len(ops) :
        LET op == ops[i]
            plan == SyncPlan(op.localData, op.deletedIds, remote, syncDeletions)
            writes == \/ op.deletedIds.documentPaths # <<>>
                      \/ Busy(deletionOrder, flatDeletes(op.deletedIds)) # {}
        IN  /\ op.pc = "fetch"
            /\ \/ /\ op.kind = "refresh"
                  /\ EndFailed(i, "error")
               \/ /\ op.kind = "sync"
                  /\ \E message \in ServerErrors :
                       \/ EndCaught(i, message, fetchDataError(message))
                       \/ EndCaught(i, message, message)
               \/ /\ op.kind = "refresh"
                  /\ EndSynced(i, RefreshPlan(op.localData, op.deletedIds, remote,
                                              syncDeletions), FALSE)
                  /\ UNCHANGED hist
               \/ /\ op.kind = "sync" /\ plan.fast
                  /\ EndSynced(i, plan.remoteFlat, FALSE)
                  /\ UNCHANGED hist
               \/ /\ op.kind = "sync" /\ ~plan.fast
                  /\ ops' = [ops EXCEPT ![i].pc = IF writes THEN "delete" ELSE "upsert",
                                        ![i].merged = plan.merged,
                                        ![i].upserts = plan.upserts]
                  /\ syncStatus' = "syncing"
                  /\ UNCHANGED <<data, deletedIds, isDirty, idb, queueDue, hist>>
            /\ UNCHANGED <<pureVars, hookProps, server, handlers, passes, locallyDeletedDocIds>>

\* The remote deletions of a full sync: the blobs of documentPaths (an error
\* answer is passed over, a thrown one is caught), then the rows of
\* flatDeletes.  The log has room for MaxLog entries; an insert beyond them
\* fails.
DeleteStep ==
    \E i \in 1..Len(ops) :
        LET op == ops[i]
            paths == op.deletedIds.documentPaths
            deletions == flatDeletes(op.deletedIds)
            busy == Busy(deletionOrder, deletions)
            room == Len(syncDeletions) + NPending(op.deletedIds)
                      + Len(op.deletedIds.documents) <= MaxLog
        IN  /\ op.pc = "delete"
            /\ \E blob \in (IF paths = <<>> THEN {"none"} ELSE {"removed", "error", "thrown"}) :
                 IF blob = "thrown"
                 THEN /\ \E message \in ServerErrors : EndCaught(i, message, message)
                      /\ UNCHANGED server
                 ELSE
                   /\ storage' = IF blob = "removed" THEN storage \ Range(paths) ELSE storage
                   /\ IF busy = {}
                      THEN /\ ops' = [ops EXCEPT
                                 ![i].pc = "upsert",
                                 ![i].successfulDeletions.documentPaths =
                                     IF blob = "removed" THEN paths ELSE <<>>]
                           /\ syncStatus' = "syncing"
                           /\ UNCHANGED <<remote, syncDeletions, data, deletedIds,
                                          isDirty, idb, queueDue, hist>>
                      ELSE \E failAt \in {0} \cup busy,
                              logged \in (IF room THEN BOOLEAN ELSE {FALSE}) :
                             LET r == deleteDataFromSupabase(remote, syncDeletions, deletions,
                                                             failAt, logged)
                             IN  /\ remote' = r.rows
                                 /\ syncDeletions' = r.log
                                 /\ IF failAt = 0
                                    THEN /\ ops' = [ops EXCEPT
                                               ![i].pc = "upsert",
                                               ![i].successfulDeletions = op.deletedIds]
                                         /\ syncStatus' = "syncing"
                                         /\ UNCHANGED <<data, deletedIds, isDirty,
                                                        idb, queueDue, hist>>
                                    ELSE \E message \in ServerErrors :
                                           EndFailedAt(i, deletionOrder[failAt], FALSE,
                                                       message)
            /\ UNCHANGED <<pureVars, hookProps, handlers, passes, locallyDeletedDocIds>>

\* The ids of the local-only documents among the records of a full sync that
\* were passed to the remote upsert.
SentLocalOnly(upserts, sent) ==
    { d.id : d \in { x \in Range(upserts.case_documents) :
                       /\ Truthy(x, "isLocalOnly")
                       /\ x.id \in Ids(sent.case_documents) } }

\* upsertDataToSupabase has answered; on success the merged data takes the
\* returned rows and the callbacks are called.
UpsertStep ==
    \E i \in 1..Len(ops) :
        LET op == ops[i]
        IN  /\ op.pc = "upsert"
            /\ LET busy == Busy(upsertOrder, dataToUpsert(op.upserts))
               IN  \E failAt \in {0} \cup busy,
                      lost \in SUBSET (busy \cap ParallelUpserts) :
                    \E r \in {upsertDataToSupabase(remote, op.upserts, failAt, lost)} :
                        /\ failAt \notin lost
                        /\ failAt \notin ParallelUpserts => lost = {}
                        /\ remote' = r.rows
                        /\ IF failAt = 0
                           THEN /\ EndSynced(i, Reconcile(op.merged, r.results), TRUE)
                                /\ hist' = [hist EXCEPT !.sentLocalOnly =
                                               @ \cup SentLocalOnly(op.upserts, r.sent)]
                           ELSE \E message \in ServerErrors :
                                  EndFailedAt(i, upsertOrder[failAt], TRUE, message)
            /\ UNCHANGED <<pureVars, hookProps, syncDeletions, storage, handlers, passes,
                           locallyDeletedDocIds>>

-----------------------------------------------------------------------------
(* The device from its mount on: the owner's profile row is on the server.  *)

InitRun ==
    /\ data = getInitialData
    /\ deletedIds = getInitialDeletedIds
    /\ remote = [EmptyFlat EXCEPT
                   !.profiles = << [id |-> "u1", updated_at |-> Epoch, val |-> "a"] >>]
    /\ syncDeletions = <<>>
    /\ phase = "run"
    /\ res = NoRes
    /\ SysIdle

Next ==
    \/ LoadData \/ InvokeManualSync \/ UserAdd \/ UserDeleteClient
    \/ ToggleStart \/ ToggleResume
    \/ SchemaCheck \/ FetchStep \/ DeleteStep \/ UpsertStep

Spec == InitRun /\ [][Next]_vars

-----------------------------------------------------------------------------
(* Properties of the running device (checked under Spec)                    *)

\* C6: on one local instance, at no time are two operations among manualSync
\* and fetchAndRefresh both past their guard and not yet finished, whatever
\* the sequence of invocations, including those made with a callback that
\* captured the syncStatus of before the change to syncing.
C6_SingleInFlight == Len(ops) <= 1

\* The step ends an operation (it leaves the sequence of those in flight).
Ends(i) == i \in 1..Len(ops) /\ ops' = RemoveAt(ops, i)

RemoteDescendants(rows, clientId) ==
    LET cases == {r \in Range(rows.cases) : Get(r, "client_id") = clientId}
        stages == {r \in Range(rows.stages) :
                     \E cs \in cases : Get(r, "case_id") = cs.id}
        sessions == {r \in Range(rows.sessions) :
                       \E st \in stages : Get(r, "stage_id") = st.id}
    IN  cases \cup stages \cup sessions

\* C8: when a full sync that carries the deletion of a client (deleteClient)
\* ends with status synced, the remote store holds no case, stage or session
\* that descends from that client (no other device writes).
C8_DescendantsDeleted ==
    [][ \A i \in 1..Len(ops) :
          (Ends(i) /\ ops[i].kind = "sync" /\ syncStatus' = "synced")
          => \A c \in Range(ops[i].deletedIds.clients) :
                RemoteDescendants(remote', c) = {} ]_vars

-----------------------------------------------------------------------------
(* Documents: addDocuments, deleteDocument, and the upload and download     *)
(* queues that the effect on data.documents starts (useSupabaseData.ts).    *)

\* The documents addDocuments has created so far (their ids are d1, d2, ...).
DocsAdded == Cardinality({x \in hist.used : \E n \in 1..MaxDocs : x = Id("d", n)})

\* documents.map(d => d.id === id ? {...d, localState} : d)
SetLocalState(docs, id, state) ==
    [n \in 1..Len(docs) |-> IF docs[n].id = id THEN [docs[n] EXCEPT !.localState = state]
                            ELSE docs[n]]

\* addDocuments(caseId, files): every file and its metadata record are put
\* in the local store, then the records are appended to data.documents.
addDocuments ==
    /\ phase = "run" /\ hist.loaded
    /\ hist.addCalls < MaxAddCalls
    /\ \E caseId \in Ids(flattenData(data).cases), n \in 1..(MaxDocs - DocsAdded) :
         LET newDocs == [k \in 1..n |->
                           [ id |-> Id("d", DocsAdded + k), caseId |-> caseId,
                             storagePath |-> "path/" \o Id("d", DocsAdded + k),
                             localState |-> "pending_upload", updated_at |-> Now,
                             isLocalOnly |-> FALSE, val |-> "a" ]]
         IN  /\ idb' = [files |-> idb.files \cup Ids(newDocs),
                        meta |-> upsertTable(idb.meta, newDocs)]
             /\ data' = [data EXCEPT !.documents = @ \o newDocs]
             /\ hist' = [hist EXCEPT !.used = @ \cup Ids(newDocs), !.addCalls = @ + 1]
    /\ isDirty' = TRUE
    /\ queueDue' = TRUE
    /\ UNCHANGED <<pureVars, hookProps, server, deletedIds, syncStatus, ops, handlers, passes,
                   locallyDeletedDocIds>>

\* deleteDocument(doc): the file and the metadata record leave the local
\* store, the record leaves data.documents, and the id joins the locally
\* deleted set; deletedIds is not touched.
deleteDocument ==
    /\ phase = "run" /\ hist.loaded
    /\ Cardinality(locallyDeletedDocIds) < MaxSuppressed
    /\ \E i \in 1..Len(data.documents) :
         LET doc == data.documents[i]
         IN  /\ idb' = [files |-> idb.files \ {doc.id},
                        meta |-> SelectSeq(idb.meta, LAMBDA x : x.id # doc.id)]
             /\ data' = [data EXCEPT !.documents = SelectSeq(@, LAMBDA d : d.id # doc.id)]
             /\ locallyDeletedDocIds' = locallyDeletedDocIds \cup {doc.id}
    /\ isDirty' = TRUE
    /\ queueDue' = TRUE
    /\ UNCHANGED <<pureVars, hookProps, server, deletedIds, syncStatus, ops, handlers, passes, hist>>

\* processUploadQueue: the metadata records to upload
pendingUploads(allDocsMeta) ==
    SelectSeq(allDocsMeta, LAMBDA doc : /\ Get(doc, "localState") = "pending_upload"
                                        /\ ~Truthy(doc, "isLocalOnly"))

\* processDownloadQueue: the documents of the state to download
pendingDownloads(documents) ==
    SelectSeq(documents, LAMBDA d : /\ Get(d, "localState") = "pending_download"
                                    /\ ~Truthy(d, "isLocalOnly"))

\* A run of one of the queues over the list it has read: the documents left
\* to process, and whether the transfer of the first one is awaited.
NewPass(kind, docs) ==
    IF docs = <<>> THEN <<>> ELSE << [kind |-> kind, docs |-> docs, sent |-> FALSE] >>

\* The loop of pass p goes on to its next document, or the pass is over.
Advance(p) ==
    IF Len(passes[p].docs) = 1 THEN RemoveAt(passes, p)
    ELSE [passes EXCEPT ![p].docs = Tail(@), ![p].sent = FALSE]

\* The effect on data.documents (the device is online): both queues read
\* their lists.  Up to MaxPasses runs are in flight.
QueueEffect ==
    /\ phase = "run" /\ queueDue
    /\ LET new == NewPass("upload", pendingUploads(idb.meta))
                  \o NewPass("download", pendingDownloads(data.documents))
       IN  /\ Len(passes) + Len(new) <= MaxPasses
           /\ passes' = passes \o new
    /\ queueDue' = FALSE
    /\ UNCHANGED <<pureVars, hookProps, server, data, deletedIds, syncStatus, isDirty, ops, handlers,
                   idb, locallyDeletedDocIds, hist>>

\* The document is marked local-only in the data of the device.
IsLocalOnly(id) == \E d \in Range(data.documents) : d.id = id /\ Truthy(d, "isLocalOnly")

\* processUploadQueue, first half of the loop body: the file is read from
\* the local store (a missing file is skipped) and storage.upload is called
\* with the storagePath of the record read at the start of the pass.
UploadStart ==
    /\ \E p \in 1..Len(passes) :
         LET doc == Head(passes[p].docs)
         IN  /\ passes[p].kind = "upload" /\ ~passes[p].sent
             /\ IF doc.id \in idb.files
                THEN /\ passes' = [passes EXCEPT ![p].sent = TRUE]
                     /\ hist' = [hist EXCEPT !.uploadedLocalOnly =
                                    @ \cup (IF IsLocalOnly(doc.id) THEN {doc.id} ELSE {})]
                ELSE /\ passes' = Advance(p)
                     /\ UNCHANGED hist
    /\ UNCHANGED <<pureVars, hookProps, server, data, deletedIds, syncStatus, isDirty, ops, handlers,
                   idb, locallyDeletedDocIds, queueDue>>

\* Second half: the upload has answered.  On success the record read at the
\* start of the pass is put back with localState 'synced' and the document
\* of the state is marked 'synced'; on an error the document is left.
UploadEnd ==
    /\ \E p \in 1..Len(passes) :
         LET doc == Head(passes[p].docs)
         IN  /\ passes[p].kind = "upload" /\ passes[p].sent
             /\ passes' = Advance(p)
             /\ \/ UNCHANGED <<storage, idb, data, isDirty, queueDue>>
                \/ /\ storage' = storage \cup {doc.storagePath}
                   /\ idb' = [idb EXCEPT !.meta =
                                MapSet(@, doc.id, [doc EXCEPT !.localState = "synced"])]
                   /\ data' = [data EXCEPT !.documents = SetLocalState(@, doc.id, "synced")]
                   /\ isDirty' = TRUE
                   /\ queueDue' = TRUE
    /\ UNCHANGED <<pureVars, hookProps, remote, syncDeletions, deletedIds, syncStatus, ops, handlers,
                   locallyDeletedDocIds, hist>>

\* processDownloadQueue, first half of the loop body: the document is marked
\* 'downloading' and storage.download is called.
DownloadStart ==
    /\ \E p \in 1..Len(passes) :
         LET doc == Head(passes[p].docs)
         IN  /\ passes[p].kind = "download" /\ ~passes[p].sent
             /\ passes' = [passes EXCEPT ![p].sent = TRUE]
             /\ data' = [data EXCEPT !.documents = SetLocalState(@, doc.id, "downloading")]
    /\ isDirty' = TRUE
    /\ queueDue' = TRUE
    /\ UNCHANGED <<pureVars, hookProps, server, deletedIds, syncStatus, ops, handlers, idb,
                   locallyDeletedDocIds, hist>>

\* Second half: the download has answered with the blob (the bucket holds
\* the path) or with an error.
DownloadEnd ==
    /\ \E p \in 1..Len(passes) :
         LET doc == Head(passes[p].docs)
         IN  /\ passes[p].kind = "download" /\ passes[p].sent
             /\ passes' = Advance(p)
             /\ \/ /\ doc.storagePath \in storage
                   /\ idb' = [files |-> idb.files \cup {doc.id},
                              meta |-> MapSet(idb.meta, doc.id,
                                              [doc EXCEPT !.localState = "synced"])]
                   /\ data' = [data EXCEPT !.documents = SetLocalState(@, doc.id, "synced")]
                \/ /\ data' = [data EXCEPT !.documents = SetLocalState(@, doc.id, "error")]
                   /\ UNCHANGED idb
    /\ isDirty' = TRUE
    /\ queueDue' = TRUE
    /\ UNCHANGED <<pureVars, hookProps, server, deletedIds, syncStatus, ops, handlers,
                   locallyDeletedDocIds, hist>>

-----------------------------------------------------------------------------
(* The device with documents.  It starts loaded and synced, holding one     *)
(* client with one case that the server holds too (a state the device       *)
(* reaches under Spec by loadData, two additions and one more sync; of the  *)
(* operations it may start, the sync of loadData is taken).                 *)
(* No record is deleted through deletedIds here, so a full sync goes from   *)
(* its merge to its upsert.                                                 *)

InitDocs ==
    /\ data = [ validateAndFixData(getInitialData) EXCEPT
                  !.clients = << [ id |-> "c1", updated_at |-> Now, val |-> "a",
                                   cases |-> << [ id |-> "k1", updated_at |-> Now,
                                                  val |-> "a", stages |-> <<>> ] >> ] >>,
                  !.profiles = << [id |-> "u1", updated_at |-> Epoch, val |-> "a"] >> ]
    /\ deletedIds = getInitialDeletedIds
    /\ remote = [ EmptyFlat EXCEPT
                    !.profiles = << [id |-> "u1", updated_at |-> Epoch, val |-> "a"] >>,
                    !.assistants = [n \in 1..Len(defaultAssistants) |->
                                       [name |-> defaultAssistants[n]]],
                    !.clients = << [id |-> "c1", updated_at |-> Now, val |-> "a"] >>,
                    !.cases = << [id |-> "k1", updated_at |-> Now, client_id |-> "c1",
                                  val |-> "a"] >> ]
    /\ syncDeletions = <<>>
    /\ phase = "run"
    /\ res = NoRes
    /\ syncStatus = "synced"
    /\ isDirty = FALSE
    /\ ops = <<>>
    /\ handlers = <<>>
    /\ idb = [meta |-> <<>>, files |-> {}]
    /\ storage = {}
    /\ passes = <<>>
    /\ locallyDeletedDocIds = {}
    /\ queueDue = FALSE
    /\ Connected
    /\ hist = [NoHist EXCEPT !.loaded = TRUE, !.used = {"c1", "k1"}, !.started = 1]

NextDocs ==
    \/ addDocuments \/ deleteDocument \/ QueueEffect
    \/ UploadStart \/ UploadEnd \/ DownloadStart \/ DownloadEnd
    \/ InvokeManualSync \/ SchemaCheck \/ FetchStep \/ UpsertStep

SpecDocs == InitDocs /\ [][NextDocs]_vars

-----------------------------------------------------------------------------
(* Properties of the documents (checked under SpecDocs)                     *)

\* C9: a document the user deleted with deleteDocument (its id is in the
\* locally deleted set, not in deletedIds) is not in the local data after a
\* later full sync or refresh: when an operation that was started with the id
\* in the locally deleted set ends by setting the data, the data it sets
\* holds no document with that id, even if the server still holds its row.
C9_SuppressedStaysDeleted ==
    [][ \A i \in 1..Len(ops) :
          (Ends(i) /\ syncStatus' = "synced")
          => Ids(data'.documents) \cap ops[i].locallyDeletedDocIds = {} ]_vars

\* C10: a document with isLocalOnly = true is never sent to the server: no
\* full sync has it among the case_documents records it passes to the remote
\* upsert, and the upload queue never calls the upload of its file.
C10_LocalOnlyNeverSent ==
    hist.sentLocalOnly = {} /\ hist.uploadedLocalOnly = {}

-----------------------------------------------------------------------------
(* Further properties of the merge (checked under SpecMerge)                *)

\* The documents the merge loop takes from the local side (after the
\* deletion filter) that are 'synced', have no remote row and are not
\* pending deletion.
VanishedDocs ==
    { d \in Range(res.local.case_documents) :
        /\ Get(d, "localState") = "synced"
        /\ d.id \notin Ids(res.remoteFlat.case_documents)
        /\ d.id \notin Range(deletedIds.documents) }

\* C11 (as stated): in a full-sync merge, a local case_documents record with
\* localState = synced that is absent from the remote fetch and whose id is
\* not in the pending document-deletion set is kept in merged with
\* isLocalOnly = true and is not included in upserts.
C11_AsStated ==
    (phase = "merged" /\ ~res.fast) =>
      \A d \in VanishedDocs :
        /\ Keeps(res.loopMerged.case_documents, [isLocalOnly |-> TRUE] @@ d)
        /\ d.id \notin Ids(res.loopUpserts.case_documents)

\* C11 (amended): such a record whose case is not pending deletion either is
\* kept in the merged set of the loop with isLocalOnly = true and is in no
\* upsert list; the orphan filter then keeps it in merged exactly when its
\* caseId is the id of a remote case or of a case queued for upsert.  A
\* record whose case is pending deletion is in neither list.
C11_VanishedDocument ==
    (phase = "merged" /\ ~res.fast) =>
      \A d \in VanishedDocs :
        LET kept == [isLocalOnly |-> TRUE] @@ d
            valid == Ids(res.remoteFlat.cases) \cup Ids(res.upserts.cases)
        IN  /\ d.id \notin Ids(res.loopUpserts.case_documents)
            /\ d.id \notin Ids(res.upserts.case_documents)
            /\ IF d.caseId \in Range(deletedIds.cases)
               THEN d.id \notin Ids(res.loopMerged.case_documents)
               ELSE /\ Keeps(res.loopMerged.case_documents, kept)
                    /\ IF d.caseId \in valid
                       THEN Keeps(res.merged.case_documents, kept)
                       ELSE d.id \notin Ids(res.merged.case_documents)

\* A synced document that was not local-only has no remote row; its case is
\* on the server; the merge keeps it, marked local-only, and queues nothing.
C11_Witness ==
    /\ phase = "merged" /\ ~res.fast
    /\ \E d \in VanishedDocs :
         /\ ~Truthy(d, "isLocalOnly")
         /\ d.caseId \in Ids(res.remoteFlat.cases)
         /\ Keeps(res.merged.case_documents, [isLocalOnly |-> TRUE] @@ d)
         /\ res.upserts.case_documents = <<>>

-----------------------------------------------------------------------------
(* Further properties of the running device (checked under Spec)            *)

\* The step resumes operation i: it ends it or moves it on.
Resumes(i) ==
    /\ i \in 1..Len(ops)
    /\ \/ Ends(i)
       \/ Len(ops') = Len(ops) /\ ops'[i] # ops[i]

\* The fetches of full sync i are about to answer, and the rows and the log
\* on the server meet the three conditions of lines 260-264.
AtFastPath(i) ==
    /\ ops[i].kind = "sync" /\ ops[i].pc = "fetch"
    /\ isLocalEffectivelyEmpty(
           applyDeletionsToLocal(flattenData(ops[i].localData), syncDeletions))
    /\ ~isRemoteEffectivelyEmpty(remote)
    /\ ~hasPendingDeletions(ops[i].deletedIds)

\* C12: when, after the deletion filter, the local snapshot is effectively
\* empty, the remote snapshot is non-empty and no deletion is pending, a
\* manualSync whose fetch succeeds ends there with status synced, the data it
\* hands to onDataSynced is the reconstruction of the remote snapshot, and it
\* writes nothing to the server (no upsert, delete, log entry or blob removal).
C12_FastPath ==
    [][ \A i \in 1..Len(ops) :
          (AtFastPath(i) /\ Resumes(i) /\ syncStatus' \notin FailureStatuses)
          => /\ Ends(i) /\ syncStatus' = "synced"
             /\ UNCHANGED <<remote, syncDeletions, storage>>
             /\ data' = handleDataSynced(
                            constructData(transformRemoteToLocal(remote)), idb.meta).data ]_vars

\* The first sync of a device with an empty store has taken the fast path:
\* the device holds the profile row of the server and nothing was written.
C12_Witness ==
    /\ phase = "run" /\ hist.started = 1 /\ ops = <<>> /\ syncStatus = "synced"
    /\ data.clients = <<>> /\ deletedIds = getInitialDeletedIds
    /\ data.profiles = remote.profiles /\ Len(remote.profiles) = 1
    /\ remote.clients = <<>> /\ syncDeletions = <<>>

-----------------------------------------------------------------------------
(* The round trip of flattenData and constructData (checked under SpecDel,  *)
(* whose graphs are drawn record by record with ids unique per table)       *)

WithParentRefs(d) ==
    LET session(st, s) == [stage_id |-> st.id] @@ s
        stage(cs, st) ==
            [case_id |-> cs.id] @@
            [st EXCEPT !.sessions = [n \in 1..Len(@) |-> session(st, @[n])]]
        caseItem(c, cs) ==
            [client_id |-> c.id] @@
            [cs EXCEPT !.stages = [n \in 1..Len(@) |-> stage(cs, @[n])]]
        client(c) == [c EXCEPT !.cases = [n \in 1..Len(@) |-> caseItem(c, @[n])]]
        invoice(inv) ==
            [inv EXCEPT !.items = [n \in 1..Len(@) |-> [invoice_id |-> inv.id] @@ @[n]]]
    IN  [ d EXCEPT !.clients = [n \in 1..Len(@) |-> client(@[n])],
                   !.invoices = [n \in 1..Len(@) |-> invoice(@[n])] ]

-----------------------------------------------------------------------------
(* A second full sync after a synced one (checked under Spec)               *)

\* The full sync at position i ends with status synced, and the device's
\* data and pending deletions are those its callback captured (nothing was
\* edited or deleted while it ran; the load-time sync captured the initial
\* data).
EndsSyncedQuietly(i) ==
    /\ Ends(i) /\ ops[i].kind = "sync" /\ syncStatus' = "synced"
    /\ ops[i].deletedIds = deletedIds
    /\ \/ ops[i].localData = data
       \/ ops[i].localData = getInitialData /\ data = validateAndFixData(getInitialData)

\* The data a full sync hands to onDataSynced when every remote call
\* succeeds: on the fast path the reconstruction of the remote snapshot, else
\* the merged data with the rows the upsert returned.
HandedOnSuccess(plan, rows) ==
    IF plan.fast THEN constructData(plan.remoteFlat)
    ELSE constructData(Reconcile(plan.merged,
                                 upsertDataToSupabase(rows, plan.upserts, 0, {}).results))

\* The data the full sync at position i hands over in the step that ends it.
Handed(i) ==
    IF ops[i].pc = "fetch"
    THEN constructData(transformRemoteToLocal(remote))
    ELSE constructData(Reconcile(ops[i].merged,
                                 upsertDataToSupabase(remote, ops[i].upserts, 0, {}).results))

\* The remote writes a full sync with this plan and these pending deletions
\* would issue.
IssuesNoWrite(plan, dIds) ==
    \/ plan.fast
    \/ /\ dIds.documentPaths = <<>>
       /\ Busy(deletionOrder, flatDeletes(dIds)) = {}
       /\ \A t \in TableSet : plan.upserts[t] = <<>>

\* C14: after a full sync that ends with status synced, a second full sync
\* run with no local edit, no new deletion and no remote change in between
\* queues no upsert, issues no remote delete, and hands onDataSynced the same
\* local data as the first.
C14_ConvergenceOnRetry ==
    [][ \A i \in 1..Len(ops) :
          EndsSyncedQuietly(i)
          => LET second == SyncPlan(data', deletedIds', remote', syncDeletions')
             IN  /\ IssuesNoWrite(second, deletedIds')
                 /\ HandedOnSuccess(second, remote') = Handed(i) ]_vars

-----------------------------------------------------------------------------
(* The device that pushes deletions and flat records.  It starts loaded and *)
(* synced, holding one client with one case and one uploaded document of    *)
(* the case, all of which the server holds too (a state the device reaches  *)
(* under SpecDocs by addDocuments, the upload and one sync).                *)

\* setAdminTasks, setAppointments from a form: a new task or appointment.
UserAddTask ==
    /\ phase = "run" /\ hist.loaded
    /\ Cardinality(hist.used) < MaxUsed
    /\ \E f \in {<<"adminTasks", "a">>, <<"appointments", "p">>} :
         data' = [data EXCEPT ![f[1]] = Append(@, NewRec(f[2], @, deletedIds[f[1]], Now))]
    /\ isDirty' = TRUE
    /\ hist' = [hist EXCEPT !.used = @ \cup (AllIds(data') \ AllIds(data))]
    /\ UNCHANGED <<pureVars, hookProps, server, deletedIds, syncStatus, ops, handlers, docVars>>

UserDeleteCase ==
    /\ phase = "run"
    /\ deleteCase
    /\ isDirty' = TRUE
    /\ UNCHANGED <<pureVars, hookProps, server, syncStatus, ops, handlers, docVars, hist>>

InitPush ==
    /\ data = [ validateAndFixData(getInitialData) EXCEPT
                  !.clients = << [ id |-> "c1", updated_at |-> Now, val |-> "a",
                                   cases |-> << [ id |-> "k1", updated_at |-> Now,
                                                  val |-> "a", stages |-> <<>> ] >> ] >>,
                  !.documents = << [ id |-> "d1", updated_at |-> Now, val |-> "a",
                                     caseId |-> "k1", localState |-> "synced",
                                     isLocalOnly |-> FALSE, storagePath |-> "path/d1" ] >>,
                  !.profiles = << [id |-> "u1", updated_at |-> Epoch, val |-> "a"] >> ]
    /\ deletedIds = getInitialDeletedIds
    /\ remote = [ EmptyFlat EXCEPT
                    !.profiles = << [id |-> "u1", updated_at |-> Epoch, val |-> "a"] >>,
                    !.assistants = [n \in 1..Len(defaultAssistants) |->
                                       [name |-> defaultAssistants[n]]],
                    !.clients = << [id |-> "c1", updated_at |-> Now, val |-> "a"] >>,
                    !.cases = << [id |-> "k1", updated_at |-> Now, client_id |-> "c1",
                                  val |-> "a"] >>,
                    !.case_documents = << [ id |-> "d1", updated_at |-> Now, val |-> "a",
                                            case_id |-> "k1",
                                            storage_path |-> "path/d1" ] >> ]
    /\ syncDeletions = <<>>
    /\ phase = "run"
    /\ res = NoRes
    /\ syncStatus = "synced"
    /\ isDirty = FALSE
    /\ ops = <<>>
    /\ handlers = <<>>
    /\ idb = [ meta |-> << [ id |-> "d1", updated_at |-> Now, val |-> "a", caseId |-> "k1",
                             localState |-> "synced", isLocalOnly |-> FALSE,
                             storagePath |-> "path/d1" ] >>,
               files |-> {"d1"} ]
    /\ storage = {"path/d1"}
    /\ passes = <<>>
    /\ locallyDeletedDocIds = {}
    /\ queueDue = FALSE
    /\ Connected
    /\ hist = [NoHist EXCEPT !.loaded = TRUE, !.used = {"c1", "k1", "d1"}, !.started = 1]

NextPush ==
    \/ UserAddTask \/ UserDeleteCase \/ UserDeleteClient
    \/ InvokeManualSync \/ SchemaCheck \/ FetchStep \/ DeleteStep \/ UpsertStep

SpecPush == InitPush /\ [][NextPush]_vars

-----------------------------------------------------------------------------
(* Properties of the remote writes (checked under SpecPush)                 *)

PosIn(order, t) == CHOOSE n \in 1..Len(order) : order[n] = t

\* The step ends the full sync at position i in the catch branch, after the
\* merge (in deleteDataFromSupabase or upsertDataToSupabase, or at the blob
\* removal when there are paths to remove).
WriteFails(i) ==
    /\ Ends(i) /\ ops[i].kind = "sync" /\ ops[i].pc \in {"delete", "upsert"}
    /\ syncStatus' \in FailureStatuses

\* The step has no blob removal in it: what failed is the write of a table.
TableWriteFails(i) ==
    WriteFails(i) /\ (ops[i].pc = "delete" => ops[i].deletedIds.documentPaths = <<>>)

\* The remote rows and log after the delete of table T failed: the tables
\* before T in deletionOrder have lost the rows asked for, T and the tables
\* after it are as they were, and no entry of a table after T is logged.
DeleteStopsAt(i, T) ==
    LET deletions == flatDeletes(ops[i].deletedIds)
        at == PosIn(deletionOrder, T)
    IN  /\ at \in Busy(deletionOrder, deletions)
        /\ \A u \in TableSet :
              remote'[u] = IF PosIn(deletionOrder, u) < at
                           THEN DeleteIn(remote[u], deletions[u]) ELSE remote[u]
        /\ Len(syncDeletions') >= Len(syncDeletions)
        /\ SubSeq(syncDeletions', 1, Len(syncDeletions)) = syncDeletions
        /\ \A n \in (Len(syncDeletions) + 1)..Len(syncDeletions') :
              PosIn(deletionOrder, syncDeletions'[n].table_name) <= at

\* The remote rows after the upsert of table T failed.  alone: T and every
\* table after it in upsertOrder are as they were.  Otherwise the tables that
\* are upserted together with T may have been written.
UpsertStopsAt(i, T, alone) ==
    LET records == dataToUpsert(ops[i].upserts)
        at == PosIn(upsertOrder, T)
        written(u) == upsertTable(remote[u], records[u])
    IN  /\ at \in Busy(upsertOrder, records)
        /\ UNCHANGED <<syncDeletions, storage>>
        /\ \A u \in TableSet :
              LET n == PosIn(upsertOrder, u)
              IN  IF n = at THEN remote'[u] = remote[u]
                  ELSE IF ~alone /\ {n, at} \subseteq ParallelUpserts
                       THEN remote'[u] \in {remote[u], written(u)}
                  ELSE IF n < at THEN remote'[u] = written(u)
                  ELSE remote'[u] = remote[u]

StopsAt(i, T, alone) ==
    IF ops[i].pc = "delete" THEN DeleteStopsAt(i, T) ELSE UpsertStopsAt(i, T, alone)

\* The tables with something to write in the step of the operation.
WritingTables(i) ==
    IF ops[i].pc = "delete"
    THEN {deletionOrder[n] : n \in Busy(deletionOrder, flatDeletes(ops[i].deletedIds))}
    ELSE {upsertOrder[n] : n \in Busy(upsertOrder, dataToUpsert(ops[i].upserts))}

\* C15 (as stated): when the remote delete of some table or the remote upsert
\* of some table fails during a full sync, no remote delete or upsert of a
\* later table in the sequence is issued, the sync ends with status error
\* carrying the failing table's name, and onDataSynced and onDeletionsSynced
\* are not called.
C15_AsStated ==
    [][ \A i \in 1..Len(ops) :
          TableWriteFails(i)
          => /\ syncStatus' = "error"
             /\ hist'.errorTable \in WritingTables(i)
             /\ StopsAt(i, hist'.errorTable, TRUE)
             /\ data' = data /\ deletedIds' = deletedIds /\ isDirty' = isDirty ]_vars

\* C15 (amended): when the remote delete or the remote upsert of a table
\* fails during a full sync, the tables before it in the sequence are
\* written, the table is not, and no delete or upsert of a later table is
\* issued, except that the upserts of admin_tasks, appointments,
\* accounting_entries and site_finances are issued together, so that when
\* one of them fails the others may be written; the sync ends with status
\* error, its message carrying the failing table's name, or with status
\* uninitialized when the error's message tells of a missing relation or
\* column; onDataSynced and onDeletionsSynced are not called.
C15_AbortOnWriteFailure ==
    [][ \A i \in 1..Len(ops) :
          WriteFails(i)
          => /\ syncStatus' \in {"error", "uninitialized"}
             /\ data' = data /\ deletedIds' = deletedIds /\ isDirty' = isDirty
             /\ (TableWriteFails(i) /\ syncStatus' = "error") => hist'.errorTable # ""
             /\ IF hist'.errorTable # ""
                THEN /\ hist'.errorTable \in WritingTables(i)
                     /\ StopsAt(i, hist'.errorTable, FALSE)
                ELSE \/ UNCHANGED <<remote, syncDeletions>>
                     \/ \E T \in WritingTables(i) : StopsAt(i, T, FALSE) ]_vars

\* The delete of the cases failed after the document rows of the case were
\* deleted: the server holds the case without its document, the device holds
\* neither, the deletion is still pending and the status is error.
C15_Witness ==
    /\ phase = "run" /\ ops = <<>> /\ syncStatus = "error" /\ isDirty
    /\ hist.errorTable = "cases"
    /\ deletedIds.cases = <<"k1">> /\ deletedIds.documents = <<"d1">>
    /\ remote.case_documents = <<>> /\ Ids(remote.cases) = {"k1"}
    /\ Ids(flattenData(data).cases) = {}

\* The step ends the full sync at position i with its callbacks, after the
\* remote writes: onDeletionsSynced is called with op.successfulDeletions.
ReportsDeletions(i) ==
    /\ Ends(i) /\ ops[i].kind = "sync" /\ ops[i].pc = "upsert"
    /\ syncStatus' = "synced"

\* C16: an id leaves the pending-deletion set only after its remote delete
\* succeeded: every id that a full sync reports through onDeletionsSynced,
\* under every key of the deletion set (profiles and documentPaths included),
\* had a successful remote delete-by-key in that same sync round, so that
\* when the sync ends the server holds no row with a reported id and the
\* bucket no blob with a reported path.
C16_ReportedAreDeleted ==
    [][ \A i \in 1..Len(ops) :
          ReportsDeletions(i)
          => /\ Range(ops[i].successfulDeletions.documentPaths) \cap storage' = {}
             /\ \A t \in TableSet :
                   Range(ops[i].successfulDeletions[entityKey(t)])
                     \cap KeysOf(remote'[t]) = {} ]_vars

\* C17: after every full sync that ends with status synced, every document
\* in the data handed to onDataSynced has a caseId equal to the id of a case
\* present in the nested graph of that same data.
C17_DocumentsHaveCase ==
    [][ \A i \in 1..Len(ops) :
          (Ends(i) /\ ops[i].kind = "sync" /\ syncStatus' = "synced")
          => \A doc \in Range(Handed(i).documents) :
                doc.caseId \in Ids(flattenData(Handed(i)).cases) ]_vars

-----------------------------------------------------------------------------
(* The refresh path (checked under Spec)                                    *)

\* C18: the refresh path is read-only towards the remote store: no execution
\* of fetchAndRefresh issues a remote upsert, a remote row delete, a
\* tombstone insert or a blob removal, and it never calls onDeletionsSynced
\* (every step of a refresh leaves the remote rows, the deletion log, the
\* bucket and the pending-deletion set as they were).
C18_RefreshReadOnly ==
    [][ \A i \in 1..Len(ops) :
          (ops[i].kind = "refresh" /\ Resumes(i))
          => /\ UNCHANGED <<remote, syncDeletions, storage>>
             /\ deletedIds' = deletedIds ]_vars

\* A refresh has run to its end after the approval toggle wrote the profile
\* row, with a client deletion pending: the deletion is still pending and
\* the row is as the toggle left it.
C18_Witness ==
    /\ phase = "run" /\ ops = <<>> /\ handlers = <<>>
    /\ hist.toggles = 1 /\ hist.started = 2
    /\ syncStatus = "synced" /\ ~isDirty
    /\ Len(deletedIds.clients) = 1
    /\ remote.profiles = << [id |-> "u1", updated_at |-> Epoch, val |-> "b"] >>
    /\ data.profiles = << [id |-> "u1", updated_at |-> Epoch, val |-> "a"] >>

-----------------------------------------------------------------------------
(* Termination.  Every remote call eventually answers, with a result or     *)
(* with an error: the continuation after each await is eventually run.      *)

\* The device of SpecPush, with the approval toggle (which starts a refresh)
\* in place of the new tasks.
NextLive ==
    \/ UserDeleteCase \/ UserDeleteClient \/ ToggleStart \/ ToggleResume
    \/ InvokeManualSync \/ SchemaCheck \/ FetchStep \/ DeleteStep \/ UpsertStep

SpecLive ==
    /\ InitPush /\ [][NextLive]_vars
    /\ WF_vars(SchemaCheck) /\ WF_vars(FetchStep)
    /\ WF_vars(DeleteStep) /\ WF_vars(UpsertStep)

FinalStatuses == {"synced", "error", "unconfigured", "uninitialized"}

\* C19: every sync terminates in a final status: once manualSync or
\* fetchAndRefresh has set the status to syncing, and every remote call
\* eventually returns or fails, the status eventually becomes one of synced,
\* error, unconfigured or uninitialized; the status never stays syncing
\* after the operation has finished (it is not syncing when no operation is
\* in flight).
C19_SyncTerminates ==
    /\ [](ops = <<>> => syncStatus # "syncing")
    /\ (syncStatus = "syncing") ~> (syncStatus \in FinalStatuses)

\* Every operation the run may start has been started and has ended, the
\* last of them in the catch branch after a failed remote write.
C19_Witness ==
    /\ phase = "run" /\ ops = <<>> /\ handlers = <<>>
    /\ hist.started = MaxStarts
    /\ syncStatus = "error" /\ hist.errorTable # ""

-----------------------------------------------------------------------------
(* The cascade over invoices (checked under SpecDel)                        *)

\* The local invoices without a tombstone whose client is in the filtered
\* clients.
ValidInvoices ==
    { inv \in Range(res.local.invoices) :
        /\ ~HasTombstone(syncDeletions, "invoices", inv.id)
        /\ Get(inv, "clientId") \in Ids(res.out.clients) }

\* C20: invoice cascade keeps valid invoices: for any non-empty tombstone
\* list, applyDeletionsToLocal retains every local invoice produced by
\* flattenData that has no tombstone of its own and whose referenced client
\* survives the client filter, and then retains that invoice's items that
\* have no tombstone.
C20_InvoiceCascade ==
    (phase = "applied" /\ Len(syncDeletions) > 0)
    => /\ \A inv \in ValidInvoices : Keeps(res.out.invoices, inv)
       /\ \A it \in Range(res.local.invoice_items) :
             (/\ ~HasTombstone(syncDeletions, "invoice_items", it.id)
              /\ \E inv \in ValidInvoices : it.invoice_id = inv.id)
             => Keeps(res.out.invoice_items, it)

-----------------------------------------------------------------------------
(* What a successful full sync keeps of the local records (checked under    *)
(* SpecMerge: the sync whose remote calls all succeed hands over the data   *)
(* of HandedOnSuccess and pushes the records of the plan's upserts)         *)

\* The reference of a table's records to their parent: the field and the
\* parent table (an accounting entry may name no client).
ParentOf(t) ==
    CASE t = "cases" -> <<"client_id", "clients">>
      [] t = "stages" -> <<"case_id", "cases">>
      [] t = "sessions" -> <<"stage_id", "stages">>
      [] t = "invoice_items" -> <<"invoice_id", "invoices">>
      [] t = "case_documents" -> <<"caseId", "cases">>
      [] t \in {"invoices", "accounting_entries"} -> <<"clientId", "clients">>
      [] OTHER -> <<"", "">>

\* The local record x of table t has no tombstone and is not pending
\* deletion, and neither has nor is any record above it, all of which the
\* device holds.
RECURSIVE Settled(_, _, _)
Settled(local, t, x) ==
    /\ ~HasTombstone(syncDeletions, t, Key(x))
    /\ Key(x) \notin deletedIdsSets(deletedIds)[entityKey(t)]
    /\ \/ ParentOf(t)[1] = ""
       \/ t = "accounting_entries" /\ Get(x, "clientId") \in {"", Undefined}
       \/ \E p \in Range(local[ParentOf(t)[2]]) :
             /\ Get(p, "id") = Get(x, ParentOf(t)[1])
             /\ Settled(local, ParentOf(t)[2], p)

\* The records the user created (the default assistant names are not).
UserMade(t, x) == t = "assistants" => x.name \notin Range(defaultAssistants)

\* A record the merge has to push when the server does not hold it: any
\* record but a document that is local-only or was synced before.
ToPush(t, x) ==
    t = "case_documents"
    => ~Truthy(x, "isLocalOnly") /\ Get(x, "localState") # "synced"

\* C21: no local record is lost by a successful full sync: every local record
\* that has no tombstone, is not in a pending-deletion set, whose parent is
\* not pending deletion and whose parent exists is, after a full sync ending
\* in synced, present in the data handed to onDataSynced (as itself or as a
\* remote version that is not older) and, when it was absent remotely, was
\* pushed to the remote store; for all 13 tables, and on the fast path.
C21_NoLocalLoss ==
    phase = "merged" =>
      LET local == flattenData(data)
          handed == flattenData(HandedOnSuccess(res, remote))
          pushed == dataToUpsert(res.upserts)
      IN  \A t \in TableSet : \A x \in Range(local[t]) :
            (Settled(local, t, x) /\ UserMade(t, x))
            => /\ \E y \in Range(handed[t]) :
                     Key(y) = Key(x) /\ DateMs(y) >= DateMs(x)
               /\ (Key(x) \notin KeysOf(res.remoteFlat[t]) /\ ToPush(t, x))
                  => (~res.fast /\ Key(x) \in KeysOf(pushed[t]))

-----------------------------------------------------------------------------
(* Documents in applyDeletionsToLocal (checked under SpecDel)               *)

\* C22: document cascade: for any tombstone list, the empty list included,
\* every document in the output of applyDeletionsToLocal has a caseId that
\* is in the surviving case id set, whatever the document's localState or
\* isLocalOnly flag.
C22_DocumentCascade ==
    phase = "applied" =>
      \A d \in Range(res.out.case_documents) :
        Get(d, "caseId") \in Ids(res.out.cases)


\* The document is resident: its file is on the device.
Resident(d) == Get(d, "localState") = "synced" \/ Truthy(d, "isLocalOnly")

-----------------------------------------------------------------------------
(* Children of a parent that is pending deletion (checked under SpecPush:   *)
(* the device holds such a child after a sync has handed back a case or a   *)
(* document whose client or case the user deleted while the sync ran)       *)

\* The step takes full sync i from its fetch to its remote writes: the merge
\* and the safety net have run, and the operation holds their outputs.
Merges(i) ==
    /\ i \in 1..Len(ops) /\ ops[i].kind = "sync" /\ ops[i].pc = "fetch"
    /\ Len(ops') = Len(ops) /\ ops'[i].pc \in {"delete", "upsert"}

\* The records of table t that the merge loop of full sync i takes from the
\* local side and whose parent is pending deletion.
Preempted(i, t) ==
    { x \in Range(applyDeletionsToLocal(flattenData(ops[i].localData), syncDeletions)[t]) :
        \E ref \in ParentRefs :
           /\ ref[1] = t
           /\ Get(x, ref[2]) \in Range(ops[i].deletedIds[entityKey(ref[3])]) }

-----------------------------------------------------------------------------
(* The safety net as a filter (checked under SpecMerge)                     *)

\* The records of the list whose parent is in the loop's merged set of the
\* parent table.
WithParent(items, ref) ==
    SelectSeq(items, LAMBDA x : Get(x, ref[2]) \in Ids(res.loopMerged[ref[3]]))

-----------------------------------------------------------------------------
(* The pending document paths (checked under SpecPush; no blob is uploaded  *)
(* there, so a path whose blob is in the bucket when a sync ends had no     *)
(* successful removal in that sync)                                         *)

\* C26: blob deletions are recorded by outcome: the document paths reported
\* as synced through onDeletionsSynced (and so removed from the pending
\* documentPaths) are exactly those of a blob delete that succeeded in this
\* round; when the blob delete fails or the remote client is unavailable,
\* the paths stay pending, also when row deletions of the same round succeed.
C26_BlobDeletionsByOutcome ==
    [][ \A i \in 1..Len(ops) :
          ReportsDeletions(i)
          => \A p \in Range(deletedIds.documentPaths) :
                p \in storage' => p \in Range(deletedIds'.documentPaths) ]_vars


-----------------------------------------------------------------------------
(* The order of the remote writes (checked under SpecPush)                  *)

\* The parent-child pairs of tables: <<child, parent>>.
ChildParentTables ==
    { <<"cases", "clients">>, <<"stages", "cases">>, <<"sessions", "stages">>,
      <<"case_documents", "cases">>, <<"invoice_items", "invoices">>,
      <<"invoices", "clients">> }

\* The step is the answer of deleteDataFromSupabase to full sync i: the sync
\* goes on to its upserts, or ends.
DeleteRuns(i) ==
    /\ i \in 1..Len(ops) /\ ops[i].kind = "sync" /\ ops[i].pc = "delete"
    /\ \/ Ends(i)
       \/ Len(ops') = Len(ops) /\ ops'[i].pc = "upsert"

\* The step has issued the delete-by-key of table T, or the insert into the
\* log that comes before it: rows of T are gone, or the log has a new entry
\* of T, or the sync ends with the error of T.
DeleteIssued(i, T) ==
    /\ flatDeletes(ops[i].deletedIds)[T] # <<>>
    /\ \/ remote'[T] # remote[T]
       \/ \E n \in (Len(syncDeletions) + 1)..Len(syncDeletions') :
             syncDeletions'[n].table_name = T
       \/ Ends(i) /\ syncStatus' \in FailureStatuses /\ hist'.errorTable = T

\* The delete-by-key of table T has completed in the step: the server holds
\* no row of T that full sync i asked to delete, and the error is not T's.
DeleteCompleted(i, T) ==
    /\ remote'[T] = DeleteIn(remote[T], flatDeletes(ops[i].deletedIds)[T])
    /\ ~(Ends(i) /\ syncStatus' \in FailureStatuses /\ hist'.errorTable = T)

UpsertRuns(i) ==
    /\ i \in 1..Len(ops) /\ ops[i].kind = "sync" /\ ops[i].pc = "upsert"
    /\ Ends(i)

\* The upsert of table T has failed in the step.
UpsertFailed(i, T) == syncStatus' \in FailureStatuses /\ hist'.errorTable = T

\* The step has issued the upsert of table T: rows of T are written, or the
\* sync ends with the error of T.
UpsertIssued(i, T) ==
    /\ dataToUpsert(ops[i].upserts)[T] # <<>>
    /\ remote'[T] # remote[T] \/ UpsertFailed(i, T)

\* The upsert of table T has completed in the step: the server holds the
\* records full sync i queued for T, and the error is not T's.
UpsertCompleted(i, T) ==
    /\ remote'[T] = upsertTable(remote[T], dataToUpsert(ops[i].upserts)[T])
    /\ ~UpsertFailed(i, T)

-----------------------------------------------------------------------------
(* The device whose props change: the network goes and comes back, the auth *)
(* session reloads, the user signs out.  It starts as the device of         *)
(* SpecPush.                                                                *)

\* manualSync of the current render called when its guards refuse: it
\* returns, or it sets the status error and returns.
RefuseManualSync ==
    /\ phase = "run" /\ hist.loaded
    /\ hist.refused < MaxRefused
    /\ \E g \in {manualSyncGuard(syncStatus, isOnline, isAuthLoading, user)} :
         /\ g # "run"
         /\ syncStatus' = IF g = "error" THEN "error" ELSE syncStatus
         /\ hist' = [hist EXCEPT !.refused = @ + 1,
                                 !.errorTable = IF g = "error" THEN "" ELSE @]
    /\ UNCHANGED <<pureVars, hookProps, server, data, deletedIds, isDirty, ops, handlers,
                   docVars>>

\* A render with other props: useOnlineStatus answers otherwise, the auth
\* session is loading, or the user has signed out.  (A change that ends with
\* a signed-in user and auth loaded runs the loadData effect again, which is
\* the mount of the device.)
PropsChange ==
    /\ phase = "run"
    /\ \E o \in BOOLEAN, a \in BOOLEAN, u \in {NoUser, "u1"} :
         /\ <<o, a, u>> # hookProps
         /\ <<a, u>> # <<isAuthLoading, user>> => (a \/ u = NoUser)
         /\ isOnline' = o /\ isAuthLoading' = a /\ user' = u
    /\ UNCHANGED <<pureVars, server, data, deletedIds, syncStatus, isDirty, ops, handlers,
                   docVars, hist>>

NextGuard ==
    \/ PropsChange \/ UserAddTask \/ InvokeManualSync \/ RefuseManualSync
    \/ SchemaCheck \/ FetchStep \/ UpsertStep

SpecGuard == InitPush /\ [][NextGuard]_vars

-----------------------------------------------------------------------------
(* Properties of the guards of manualSync (checked under SpecGuard)         *)

\* The step is a call of manualSync: one that its guards refuse, or one that
\* goes on to the schema check.
ManualSyncCalled ==
    hist'.refused = hist.refused + 1 \/ hist'.started = hist.started + 1

\* The step makes no remote call: no operation is started and the server is
\* as it was.
NoRemoteCall == ops' = ops /\ UNCHANGED server

\* The step calls neither onDataSynced nor onDeletionsSynced.
NoCallback == UNCHANGED <<data, deletedIds, isDirty>>

\* C29 (as stated): manualSync invoked while syncStatus is syncing or while
\* auth is loading makes no status change and no remote call; invoked while
\* offline or without a user it sets status error and makes no remote call
\* and no callback to onDataSynced or onDeletionsSynced.
C29_AsStated ==
    [][ ManualSyncCalled
        => /\ (syncStatus = "syncing" \/ isAuthLoading)
                 => (syncStatus' = syncStatus /\ NoRemoteCall)
           /\ (~isOnline \/ user = NoUser)
                 => (syncStatus' = "error" /\ NoRemoteCall /\ NoCallback) ]_vars

\* C29 (amended): manualSync invoked while syncStatus is syncing or while
\* auth is loading makes no status change, no remote call and no callback,
\* whether the device is online and has a user or not; invoked while offline
\* or without a user, when syncStatus is not syncing and auth is not loading,
\* it sets status error and makes no remote call and no callback to
\* onDataSynced or onDeletionsSynced.
C29_Refusals ==
    [][ ManualSyncCalled
        => /\ (syncStatus = "syncing" \/ isAuthLoading)
                 => (syncStatus' = syncStatus /\ NoRemoteCall /\ NoCallback)
           /\ ((~isOnline \/ user = NoUser) /\ syncStatus # "syncing" /\ ~isAuthLoading)
                 => (syncStatus' = "error" /\ NoRemoteCall /\ NoCallback) ]_vars

\* manualSync was called on the offline device and refused with status error:
\* no sync has started since the device was mounted, the new task is still to
\* be pushed, and the server does not hold it.
C29_Witness ==
    /\ phase = "run" /\ ~isOnline /\ ~isAuthLoading /\ user = "u1"
    /\ hist.refused = 1 /\ hist.started = 1 /\ syncStatus = "error"
    /\ ops = <<>> /\ isDirty
    /\ data.adminTasks # <<>> /\ remote.admin_tasks = <<>>


-----------------------------------------------------------------------------
(* Properties of the catch branch of manualSync (checked under SpecPush)    *)

\* The message reports a missing column or relation.
ReportsMissing(message) ==
    "does not exist" \in message \/ "could not find the table" \in message

\* The step ends full sync i in the catch branch, after the schema check: a
\* fetch, the blob removal, a delete or an upsert has failed.
StepFails(i) ==
    /\ Ends(i) /\ ops[i].kind = "sync" /\ ops[i].pc \in {"fetch", "delete", "upsert"}
    /\ syncStatus' \in FailureStatuses

\* C30: schema-mismatch classification: whenever a step of a full sync after
\* the schema check (the fetch of a table, a delete, an upsert) fails with an
\* error whose message reports a missing column or relation, the sync ends
\* with status uninitialized, not error.
C30_SchemaMismatch ==
    [][ \A i \in 1..Len(ops) :
          (StepFails(i) /\ hist'.caught # <<>> /\ ReportsMissing(hist'.caught[1]))
          => syncStatus' = "uninitialized" ]_vars


(***************************************************************************)
(* Residency transitions of the transfer queues                            *)
(* (useSupabaseData.ts 544-593 processUploadQueue, 596-635                 *)
(* processDownloadQueue).  A queue step is a step that moves a pass on:    *)
(* UploadStart, UploadEnd, DownloadStart, DownloadEnd.                     *)
(***************************************************************************)
ListedTransitions ==
    { <<"pending_upload", "synced">>, <<"pending_download", "downloading">>,
      <<"downloading", "synced">>, <<"downloading", "error">> }

QueueStep == passes' # passes /\ data' # data

\* C31: a step of the upload or download queue changes the localState of a
\* document of local data only along pending_upload -> synced,
\* pending_download -> downloading, downloading -> synced or
\* downloading -> error.
C31_OnlyListedTransitions ==
    [][ QueueStep =>
          \A d \in Range(data.documents) : \A e \in Range(data'.documents) :
             (d.id = e.id /\ Get(d, "localState") # Get(e, "localState"))
             => <<Get(d, "localState"), Get(e, "localState")>> \in ListedTransitions ]_vars


(***************************************************************************)
(* Documents in localState error and the queues                            *)
(* (useSupabaseData.ts 544-553, 596-602 the lists the queues read,         *)
(* 638-643 the effect that starts them).                                   *)
(***************************************************************************)
\* The queue effect has run: both queues have read their lists.
QueueEffectRan == queueDue /\ ~queueDue'

\* Document id is among the documents some running pass will transfer.
InSomePass(ps, id) ==
    \E p \in 1..Len(ps) : \E x \in Range(ps[p].docs) : x.id = id

\* C32: when the queues run while the device is online, every document of
\* local data whose localState is error and that is not local-only is taken
\* up by a pass (its transfer is attempted again).
C32_ErrorIsRetried ==
    [][ (QueueEffectRan /\ isOnline) =>
          \A d \in Range(data.documents) :
             (Get(d, "localState") = "error" /\ ~Truthy(d, "isLocalOnly"))
             => InSomePass(passes', d.id) ]_vars


-----------------------------------------------------------------------------
(* The device with documents next to another device of the same account.   *)
(* The other device runs the same code against the same server: it deletes *)
(* a document it has fetched (deleteDataFromSupabase: tombstone, then the   *)
(* row) and it pushes a document record it still holds                      *)
(* (upsertDataToSupabase), also one whose row has been deleted since.       *)

\* Tombstones the other device may log.
MaxOtherLog == 1

\* The other device's sync deletes a document row of the server.
otherDeviceDeletes ==
    /\ phase = "run"
    /\ Len(syncDeletions) < MaxOtherLog
    /\ \E row \in Range(remote.case_documents) :
         /\ remote' = [remote EXCEPT !.case_documents = DeleteIn(@, <<row.id>>)]
         /\ syncDeletions' = syncDeletions \o deletionsLog("case_documents", <<row.id>>)
    /\ UNCHANGED <<data, deletedIds, storage, pureVars, hookProps, syncStatus, isDirty, ops,
                   handlers, docVars, hist>>

\* The other device's sync pushes its edit of a document the server holds or
\* held when that sync fetched (its tombstone is in the log by now): the
\* edit is newer than the row the other device fetched, so it is among the
\* records to upsert (useSync.ts 304-306).
otherDeviceUpserts ==
    /\ phase = "run"
    /\ \E id \in Ids(remote.case_documents)
                   \cup {x.record_id : x \in {y \in Range(syncDeletions) :
                                                y.table_name = "case_documents"}},
          t \in {Now + TimeStep} :
         /\ ~(\E r \in Range(remote.case_documents) : r.id = id /\ r.val = "b")
         /\ remote' = [remote EXCEPT !.case_documents =
                         upsertTable(@, << [ id |-> id, case_id |-> "k1", updated_at |-> t,
                                             storage_path |-> "path/" \o id, val |-> "b" ] >>)]
    /\ UNCHANGED <<data, deletedIds, syncDeletions, storage, pureVars, hookProps, syncStatus,
                   isDirty, ops, handlers, docVars, hist>>

\* The device holds document d1 of case k1, added by addDocuments and pushed
\* by a full sync before its upload has started (a state SpecDocs reaches);
\* the operations counted in hist.started are those that start from here on.
InitShared ==
    LET d1 == [ id |-> "d1", caseId |-> "k1", storagePath |-> "path/d1",
                localState |-> "pending_upload", updated_at |-> Now,
                isLocalOnly |-> FALSE, val |-> "a" ]
    IN
    /\ data = [ validateAndFixData(getInitialData) EXCEPT
                  !.clients = << [ id |-> "c1", updated_at |-> Now, val |-> "a",
                                   cases |-> << [ id |-> "k1", updated_at |-> Now,
                                                  val |-> "a", stages |-> <<>> ] >> ] >>,
                  !.documents = << d1 >>,
                  !.profiles = << [id |-> "u1", updated_at |-> Epoch, val |-> "a"] >> ]
    /\ deletedIds = getInitialDeletedIds
    /\ remote = [ EmptyFlat EXCEPT
                    !.profiles = << [id |-> "u1", updated_at |-> Epoch, val |-> "a"] >>,
                    !.assistants = [n \in 1..Len(defaultAssistants) |->
                                       [name |-> defaultAssistants[n]]],
                    !.clients = << [id |-> "c1", updated_at |-> Now, val |-> "a"] >>,
                    !.cases = << [id |-> "k1", updated_at |-> Now, client_id |-> "c1",
                                  val |-> "a"] >>,
                    !.case_documents = dataToUpsert([EmptyFlat EXCEPT
                                           !.case_documents = << d1 >>]).case_documents ]
    /\ syncDeletions = <<>>
    /\ phase = "run"
    /\ res = NoRes
    /\ syncStatus = "synced"
    /\ isDirty = FALSE
    /\ ops = <<>>
    /\ handlers = <<>>
    /\ idb = [meta |-> << d1 >>, files |-> {"d1"}]
    /\ storage = {}
    /\ passes = <<>>
    /\ locallyDeletedDocIds = {}
    /\ queueDue = TRUE
    /\ Connected
    /\ hist = [NoHist EXCEPT !.loaded = TRUE, !.used = {"c1", "k1", "d1"}, !.started = 0,
                             !.addCalls = 1]

NextShared ==
    \/ QueueEffect \/ UploadStart \/ UploadEnd
    \/ InvokeManualSync \/ SchemaCheck \/ FetchStep \/ UpsertStep
    \/ otherDeviceDeletes \/ otherDeviceUpserts

SpecShared == InitShared /\ [][NextShared]_vars

\* C33: a document of local data that is marked local-only is still marked
\* local-only after every step (sync, refresh, queue pass) that leaves it in
\* local data, whatever rows the server holds.
C33_LocalOnlyIsTerminal ==
    [][ \A d \in Range(data.documents) : \A e \in Range(data'.documents) :
          (d.id = e.id /\ Truthy(d, "isLocalOnly")) => Truthy(e, "isLocalOnly") ]_vars


-----------------------------------------------------------------------------
(* Two devices, one server: the full sync of this device with its two      *)
(* reads apart.  manualSync starts fetchDataFromSupabase and               *)
(* fetchDeletionsFromSupabase together (useSync.ts 248-251, Promise.all);  *)
(* the server answers them one after the other, in either order.  The      *)
(* other device's deleteDataFromSupabase inserts the tombstone and then    *)
(* deletes the row (useOnlineData.ts 337, 345), two requests.               *)

TasksTables == {"admin_tasks", "appointments"}

\* The first of the two reads is answered: its result is kept.
fetchFirst ==
    /\ \E i \in 1..Len(ops), which \in {"rows", "log"} :
         /\ ops[i].pc = "fetch" /\ ops[i].kind = "sync"
         /\ ops' = [ops EXCEPT ![i] =
                      [read |-> which, rows |-> remote, log |-> syncDeletions]
                      @@ [ops[i] EXCEPT !.pc = "fetch2"]]
    /\ UNCHANGED <<pureVars, hookProps, server, data, deletedIds, syncStatus, isDirty, handlers,
                   docVars, hist>>

\* The second read is answered (or one of the two fails): manualSync goes on
\* with the rows of one moment and the log of another.
fetchSecond ==
    \E i \in 1..Len(ops) :
        /\ ops[i].pc = "fetch2"
        /\ LET op == [f \in DOMAIN ops[i] \ {"read", "rows", "log"} |-> ops[i][f]]
               rows == IF ops[i].read = "rows" THEN ops[i].rows ELSE remote
               log == IF ops[i].read = "log" THEN ops[i].log ELSE syncDeletions
           IN  \E plan \in {SyncPlan(op.localData, op.deletedIds, rows, log)} :
                 \/ \E message \in ServerErrors :
                       \/ EndCaught(i, message, fetchDataError(message))
                       \/ EndCaught(i, message, message)
                 \/ /\ plan.fast
                    /\ EndSynced(i, plan.remoteFlat, FALSE)
                    /\ UNCHANGED hist
                 \/ /\ ~plan.fast
                    /\ ops' = [ops EXCEPT ![i] = [op EXCEPT !.pc = "upsert",
                                                             !.merged = plan.merged,
                                                             !.upserts = plan.upserts]]
                    /\ syncStatus' = "syncing"
                    /\ UNCHANGED <<data, deletedIds, isDirty, idb, queueDue, hist>>
        /\ UNCHANGED <<pureVars, hookProps, server, handlers, passes, locallyDeletedDocIds>>

\* The other device deletes a task or an appointment it has fetched: first
\* request of deleteDataFromSupabase, the insert into sync_deletions.
otherDeviceLogsDeletion ==
    /\ phase = "run"
    /\ Len(syncDeletions) < MaxOtherLog
    /\ \E t \in TasksTables : \E row \in Range(remote[t]) :
         syncDeletions' = syncDeletions \o deletionsLog(t, <<row.id>>)
    /\ UNCHANGED <<data, deletedIds, remote, storage, pureVars, hookProps, syncStatus, isDirty,
                   ops, handlers, docVars, hist>>

\* Second request: the hard delete of the logged row.
otherDeviceDeletesRow ==
    /\ phase = "run"
    /\ \E x \in Range(syncDeletions) :
         /\ x.table_name \in TasksTables
         /\ x.record_id \in Ids(remote[x.table_name])
         /\ remote' = [remote EXCEPT ![x.table_name] = DeleteIn(@, <<x.record_id>>)]
    /\ UNCHANGED <<data, deletedIds, syncDeletions, storage, pureVars, hookProps, syncStatus,
                   isDirty, ops, handlers, docVars, hist>>

NextTwo ==
    \/ UserAddTask \/ InvokeManualSync \/ SchemaCheck \/ fetchFirst \/ fetchSecond \/ UpsertStep
    \/ otherDeviceLogsDeletion \/ otherDeviceDeletesRow

SpecTwo == InitPush /\ [][NextTwo]_vars

\* C34: a row whose tombstone is in the log and that is gone from the server
\* is written to the server again by this device's sync only if the record
\* was edited on this device later than deleted_at + 2000 ms.
C34_NoResurrection ==
    [][ \A x \in Range(syncDeletions) :
          ( /\ x.table_name \in TasksTables
            /\ x.record_id \notin Ids(remote[x.table_name])
            /\ x.record_id \in Ids(remote'[x.table_name]) )
          => \E i \in 1..Len(ops) : \E rec \in Range(ops[i].upserts[x.table_name]) :
                /\ rec.id = x.record_id
                /\ DateMs(rec) > x.deleted_at + SkewBufferMs ]_vars


-----------------------------------------------------------------------------
(* Deletions made while a full sync runs (useSupabaseData.ts 513-529       *)
(* handleDeletionsSynced, 658-665 createDeleteFunction; useSync.ts 403-424).*)

\* C35: an id that was put into the pending-deletion set after a full sync
\* captured deletedIds is still in the set when that sync has ended with its
\* callbacks.
C35_DeletionDuringSyncStays ==
    [][ \A i \in 1..Len(ops) :
          (Ends(i) /\ ops[i].kind = "sync" /\ syncStatus' = "synced")
          => \A k \in DeletedKeys :
                \A id \in Range(deletedIds[k]) \ Range(ops[i].deletedIds[k]) :
                   id \in Range(deletedIds'[k]) ]_vars


-----------------------------------------------------------------------------
(* Two delete calls of one render (useSupabaseData.ts 658-665, 711-735).   *)
(* The delete functions of one render share that render's deletedIds:      *)
(* createDeleteFunction builds { ...deletedIds, [entity]: [...deletedIds    *)
(* [entity], id] } from it and hands the result to setDeletedIds, while     *)
(* updateData removes the record with a functional update.                  *)

DeleteEntities == {"clients", "adminTasks", "appointments", "accountingEntries", "invoices"}

\* deleteClient, deleteAdminTask, ... called twice before the component
\* renders again: both records leave the data; each call hands setDeletedIds
\* the set it has built from the render's deletedIds after its await, and
\* the set handed over last is the one that stays.
deleteTwiceInOneRender ==
    /\ CanDelete
    /\ NPending(deletedIds) + 1 < MaxPending
    /\ \E f \in DeleteEntities, g \in DeleteEntities :
         \E i \in 1..Len(data[f]), j \in 1..Len(data[g]) :
            /\ <<f, i>> # <<g, j>>
            /\ LET first == data[f][i].id
                   second == data[g][j].id
                   afterFirst == [data EXCEPT ![f] = DeleteIn(@, <<first>>)]
                   setFirst == createDeleteFunction(deletedIds, f, first)
                   setSecond == createDeleteFunction(deletedIds, g, second)
               IN  /\ data' = [afterFirst EXCEPT ![g] = DeleteIn(@, <<second>>)]
                   /\ deletedIds' \in {setFirst, setSecond}
    /\ UNCHANGED <<remote, syncDeletions, phase, res, sysVars>>

NextRender == DrawLocal \/ DeleteLocal \/ deleteTwiceInOneRender

SpecRender == InitMerge /\ [][NextRender]_vars

\* C36: a delete step puts the id of every record it removes from a
\* top-level table into the pending-deletion set and drops no id that was
\* pending.
C36_NoDeletionLost ==
    [][ /\ \A f \in DeleteEntities :
              \A id \in Ids(data[f]) \ Ids(data'[f]) : id \in Range(deletedIds'[f])
        /\ \A k \in DeletedKeys : Range(deletedIds[k]) \subseteq Range(deletedIds'[k]) ]_vars


-----------------------------------------------------------------------------
(* Records created while a sync or a refresh runs (useSupabaseData.ts      *)
(* 364-376 updateData, 477-511 handleDataSynced; useSync.ts 421-424).      *)

\* C37: a record the user has put into local data after a full sync or a
\* refresh captured localData is still in local data when that operation
\* has ended with its callbacks.
C37_EditDuringSyncSurvives ==
    [][ \A i \in 1..Len(ops) :
          (Ends(i) /\ syncStatus' = "synced")
          => (AllIds(data) \ AllIds(ops[i].localData)) \subseteq AllIds(data') ]_vars


-----------------------------------------------------------------------------
(* The dirty flag after an operation that pushes nothing                    *)
(* (useSupabaseData.ts 504-506 handleDataSynced, 646-651 auto-sync effect; *)
(* useSync.ts 264-269 fast path, 490-492 fetchAndRefresh).                  *)

\* Ids of the rows the server holds.
RemoteIds == UNION {Ids(remote[t]) : t \in TableSet \ {"assistants"}}

\* C38: when a refresh or a fast-path sync ends with status synced (it ends
\* at its fetch and writes nothing to the server) and local data then holds
\* a record the server does not hold, isDirty is true afterwards.
C38_DirtyUntilPushed ==
    [][ \A i \in 1..Len(ops) :
          ( /\ Ends(i) /\ ops[i].pc = "fetch" /\ syncStatus' = "synced"
            /\ isDirty
            /\ ~(AllIds(data') \subseteq RemoteIds) )
          => isDirty' ]_vars


-----------------------------------------------------------------------------
(* Several tombstones of one record (useSync.ts 111-114: the deletion map  *)
(* is filled entry by entry in the order of the fetched list).             *)

\* The latest deleted_at among the tombstones of a record.
LatestTombTime(tableName, id) ==
    CHOOSE m \in TombTimes(tableName, id) : \A x \in TombTimes(tableName, id) : x <= m

\* C39: for every table filtered by the deletion pass other than
\* case_documents and every local record r with tombstones, the latest
\* deleted_at among them decides: r is absent from the output when
\* r.updated_at < latest + 2000 and survives the direct tombstone filter
\* otherwise, in whatever order the log lists the tombstones.
C39_LatestTombstoneDecides ==
    phase = "applied" =>
      \A t \in DirectTables : \A i \in 1..Len(res.local[t]) :
        LET r == res.local[t][i]
        IN  TombTimes(t, Key(r)) # {} =>
              LET latest == LatestTombTime(t, Key(r))
              IN  /\ DateMs(r) < latest + SkewBufferMs => Key(r) \notin KeysOf(res.out[t])
                  /\ DateMs(r) >= latest + SkewBufferMs =>
                        r \in Range(filterItems(syncDeletions, res.local[t], t))


-----------------------------------------------------------------------------
(* Echo reconciliation as a function of its inputs (useSync.ts 411-419).   *)
(* The inputs are the merged records and the records to upsert that the    *)
(* merge hands over; every table has its own text primary key              *)
(* (useOnlineData.ts 660-670), so one id value may occur in two tables.    *)

MaxEcho == 3

EchoTables == {"clients", "admin_tasks", "appointments"}

EchoIds == {"x1", "x2"}

InitEcho ==
    /\ data = getInitialData
    /\ deletedIds = getInitialDeletedIds
    /\ remote = EmptyFlat
    /\ syncDeletions = <<>>
    /\ phase = "echo"
    /\ res = [merged |-> EmptyFlat, upserts |-> EmptyFlat]
    /\ SysIdle

\* One more record of the merged data, pushed (it is among the records to
\* upsert too) or not.
DrawEcho ==
    /\ phase = "echo"
    /\ NRemote(res.merged) < MaxEcho
    /\ \E t \in EchoTables, v \in {"a", "b"}, pushed \in BOOLEAN :
         \E id \in EchoIds \ Ids(res.merged[t]) :
            LET rec == [id |-> id, updated_at |-> Now, val |-> v]
            IN  res' = [res EXCEPT !.merged[t] = Append(@, rec),
                                   !.upserts[t] = IF pushed THEN Append(@, rec) ELSE @]
    /\ UNCHANGED <<data, deletedIds, remote, syncDeletions, phase, sysVars>>

\* Lines 411-419: the upsert answers with the rows it has written, and the
\* merged records are mapped through upsertedDataMap.
ReconcileStep ==
    /\ phase = "echo"
    /\ phase' = "reconciled"
    /\ \E r \in {upsertDataToSupabase(remote, res.upserts, 0, {})} :
         res' = [ merged |-> res.merged, upserts |-> res.upserts,
                  echo |-> transformRemoteToLocal(r.results),
                  out |-> Reconcile(res.merged, r.results) ]
    /\ UNCHANGED <<data, deletedIds, remote, syncDeletions, sysVars>>

NextEcho == DrawEcho \/ ReconcileStep

SpecEcho == InitEcho /\ [][NextEcho]_vars

\* C40: after the reconciliation every record of table T in merged is the
\* echoed record of table T with its key when T's echo holds that key, and
\* is unchanged otherwise.
C40_EchoStaysWithinTable ==
    phase = "reconciled" =>
      \A t \in TableSet : \A i \in 1..Len(res.merged[t]) :
         res.out[t][i] = IF MapHas(res.echo[t], Key(res.merged[t][i]))
                         THEN MapGet(res.echo[t], Key(res.merged[t][i]))
                         ELSE res.merged[t][i]

=============================================================================
